---- MODULE Spec2Model ----
(***************************************************************************)
(* Model of the dashboard control plane of nezha:                          *)
(*   cmd/dashboard/controller/member_api.go   (tokens, cron jobs, dispatch)*)
(*   cmd/dashboard/controller/common_page.go  (file-manager sessions)      *)
(*   cmd/dashboard/main.go                    (dispatchReportInfoTask, mux)*)
(* Every HTTP handler is a goroutine; a handler is modelled statement by   *)
(* statement wherever it touches shared registries or their locks.         *)
(***************************************************************************)
EXTENDS Integers, Sequences, FiniteSets, TLC

VARIABLES
    \* ---- token registry (singleton.ApiTokenList & co) ----
    ApiTokenList,           \* token -> [UserID, Note]
    UserIDToApiTokenList,   \* user id -> sequence of tokens
    ApiLock,                \* sync.RWMutex: [w |-> holder or 0, r |-> set of readers]
    dbTokens,               \* rows of the api_tokens table (singleton.DB)
    nextToken,              \* utils.GenerateRandomString: the next fresh string
    tpc,                    \* position of each token-handler goroutine
    tloc,                   \* its locals
    minted,                 \* history: token -> user it was generated for
    revoked,                \* history: tokens whose deleteToken answered success
    \* ---- job registry (singleton.Crons, singleton.Cron) ----
    Crons,                  \* job id -> the stored *model.Cron
    CronLock,               \* sync.RWMutex
    CronEntries,            \* the engine's timers: entry id -> [job, def]
    nextEntryID,            \* the engine's next entry id
    dbCrons,                \* committed rows of the crons table
    nextCronID,             \* the table's next auto-increment id
    nextDef,                \* serial of the next submitted job definition
    cpc,                    \* position of each cron-handler goroutine
    cloc,                   \* its locals
    cronFatal,              \* the runtime threw "concurrent map writes"/"read and write"
    \* ---- agent registry, dispatch and file-manager sessions ----
    ServerList,             \* agent id -> [ID, TaskStream] (TaskStream 0 is nil)
    ServerLock,             \* sync.RWMutex
    ioStreams,              \* rpc.NezhaHandlerSingleton's sessions: id -> [agent, user, relaying]
    nextStream,             \* uuid.GenerateUUID: the next fresh session id
    delivered,              \* sessions whose open-session task reached the agent
    apc,                    \* position of each web-handler goroutine
    aloc,                   \* its locals
    ppc,                    \* position of the keepalive goroutine each fm handler started
    wsOpen,                 \* whether the handler's websocket connection is open
    dpc,                    \* position of the dispatchReportInfoTask goroutine
    dloc,                   \* its locals
    \* ---- protocol multiplexer (newHTTPandGRPCMux) ----
    mpc,                    \* position of the goroutine serving one inbound request
    muxReq,                 \* that request: [contentType, path]
    grpcCalls,              \* calls of grpcHandler.ServeHTTP for it
    httpCalls,              \* calls of httpHandler.ServeHTTP for it
    \* ---- agent connections (the rpc server's side of ServerList) ----
    taskStreams,            \* the open command streams: stream -> agent id
    nextTaskStream          \* the next stream an agent opens

tokenVars == <<ApiTokenList, UserIDToApiTokenList, ApiLock, dbTokens, nextToken,
               tpc, tloc, minted, revoked>>

cronVars == <<Crons, CronLock, CronEntries, nextEntryID, dbCrons, nextCronID, nextDef,
              cpc, cloc, cronFatal>>

agentVars == <<ServerList, ServerLock, ioStreams, nextStream, delivered, apc, aloc,
               ppc, wsOpen, dpc, dloc>>

muxVars == <<mpc, muxReq, grpcCalls, httpCalls>>

connVars == <<taskStreams, nextTaskStream>>

vars == <<tokenVars, cronVars, agentVars, muxVars, connVars>>

\* what each group of handlers leaves alone
notToken == <<cronVars, agentVars, muxVars, connVars>>
notCron == <<tokenVars, agentVars, muxVars, connVars>>
notAgent == <<tokenVars, cronVars, muxVars, connVars>>
notMux == <<tokenVars, cronVars, agentVars, connVars>>

\* ------------------------------------------------------------------ bounds
NumTokenProcs == 2
MaxTokens == 3
NumCronProcs == 2
MaxCronID == 2
MaxDefs == 3
NumWebProcs == 2
MaxServerID == 1
MaxTargets == 2
MaxSessions == 2
MaxPathLen == 4
MaxHeaderValues == 2
MaxConnects == 2

\* ------------------------------------------------------------------ values
TokenProcs == 1..NumTokenProcs
Users == {1, 2}
Notes == {"n1"}
Tokens == 1..MaxTokens
EmptyToken == 0

StatusOK == 200
StatusBadRequest == 400
StatusInternalServerError == 500

\* ------------------------------------------------------------------ sync.RWMutex
Unlocked == [w |-> 0, r |-> {}]
CanLock(l) == l.w = 0 /\ l.r = {}
CanRLock(l) == l.w = 0
Lock(l, p) == [l EXCEPT !.w = p]
Unlock(l, p) == [l EXCEPT !.w = 0]
RLock(l, p) == [l EXCEPT !.r = @ \cup {p}]
RUnlock(l, p) == [l EXCEPT !.r = @ \ {p}]
HoldsWrite(l, p) == l.w = p
HoldsRead(l, p) == p \in l.r

\* ------------------------------------------------------------------ map helpers
MapSet(m, k, v) == [x \in DOMAIN m \cup {k} |-> IF x = k THEN v ELSE m[x]]
MapDelete(m, k) == [x \in DOMAIN m \ {k} |-> m[x]]
EmptyMap == [x \in {} |-> 0]
\* a Go map read of a missing key of slice type gives the nil slice
ListOf(m, k) == IF k \in DOMAIN m THEN m[k] ELSE <<>>
InSeq(s, x) == \E i \in 1..Len(s) : s[i] = x
Count(s, x) == Cardinality({i \in 1..Len(s) : s[i] = x})

\* ------------------------------------------------------------------ token helpers
\* member_api.go:111  UserIDToApiTokenList[u.ID] = append(UserIDToApiTokenList[u.ID], token)
AppendTokenOverwrite(m, u, token) == MapSet(m, u, <<token>>)
AppendToken(m, u, token) == MapSet(m, u, Append(ListOf(m, u), token))

\* member_api.go:147-152  remove the first occurrence of token from the list
FirstIndex(s, x) == CHOOSE i \in 1..Len(s) : s[i] = x /\ \A j \in 1..(i-1) : s[j] # x
RemoveToken(s, token) ==
    IF InSeq(s, token)
    THEN LET i == FirstIndex(s, token)
         IN  SubSeq(s, 1, i-1) \o SubSeq(s, i+1, Len(s))
    ELSE s

\* member_api.go:153-155  an emptied list is deleted from the map
PruneEmptyNever(m, u) == m
PruneEmpty(m, u) == IF Len(ListOf(m, u)) = 0 THEN MapDelete(m, u) ELSE m

TLocInit == [u |-> 0, token |-> 0, note |-> "", tokenList |-> <<>>, res |-> <<>>,
             code |-> 0, wasOnly |-> FALSE]

TokenInit ==
    /\ ApiTokenList = EmptyMap
    /\ UserIDToApiTokenList = EmptyMap
    /\ ApiLock = Unlocked
    /\ dbTokens = {}
    /\ nextToken = 1
    /\ tpc = [p \in TokenProcs |-> "idle"]
    /\ tloc = [p \in TokenProcs |-> TLocInit]
    /\ minted = EmptyMap
    /\ revoked = {}

\* ---- issueNewToken, member_api.go:83-122 --------------------------------
\* lines 84-101: bind the form and generate the token; either may fail
IssueReject(p) ==
    /\ tpc[p] = "idle"
    /\ tloc' = [tloc EXCEPT ![p] = [TLocInit EXCEPT !.code = StatusBadRequest]]
    /\ tpc' = [tpc EXCEPT ![p] = "rejected"]
    /\ UNCHANGED notToken
    /\ UNCHANGED <<ApiTokenList, UserIDToApiTokenList, ApiLock, dbTokens, nextToken,
                   minted, revoked>>

\* lines 84-107: build the token and DB.Create it
IssueCreate(p) ==
    /\ tpc[p] = "idle"
    /\ nextToken <= MaxTokens
    /\ \E u \in Users, note \in Notes :
         /\ tloc' = [tloc EXCEPT ![p] =
                        [TLocInit EXCEPT !.u = u, !.token = nextToken, !.note = note]]
         /\ minted' = MapSet(minted, nextToken, u)
    /\ dbTokens' = dbTokens \cup {nextToken}
    /\ nextToken' = nextToken + 1
    /\ tpc' = [tpc EXCEPT ![p] = "issue_lock"]
    /\ UNCHANGED notToken
    /\ UNCHANGED <<ApiTokenList, UserIDToApiTokenList, ApiLock, revoked>>

\* line 109
IssueLock(p) ==
    /\ tpc[p] = "issue_lock"
    /\ CanLock(ApiLock)
    /\ ApiLock' = Lock(ApiLock, p)
    /\ tpc' = [tpc EXCEPT ![p] = "issue_map"]
    /\ UNCHANGED notToken
    /\ UNCHANGED <<ApiTokenList, UserIDToApiTokenList, dbTokens, nextToken, tloc,
                   minted, revoked>>

\* line 110
IssueMap(p) ==
    /\ tpc[p] = "issue_map"
    /\ ApiTokenList' = MapSet(ApiTokenList, tloc[p].token,
                              [UserID |-> tloc[p].u, Note |-> tloc[p].note])
    /\ tpc' = [tpc EXCEPT ![p] = "issue_append"]
    /\ UNCHANGED notToken
    /\ UNCHANGED <<UserIDToApiTokenList, ApiLock, dbTokens, nextToken, tloc,
                   minted, revoked>>

\* line 111
IssueAppend(p) ==
    /\ tpc[p] = "issue_append"
    /\ UserIDToApiTokenList' = AppendToken(UserIDToApiTokenList, tloc[p].u, tloc[p].token)
    /\ tpc' = [tpc EXCEPT ![p] = "issue_unlock"]
    /\ UNCHANGED notToken
    /\ UNCHANGED <<ApiTokenList, ApiLock, dbTokens, nextToken, tloc, minted, revoked>>

\* lines 112-121
IssueUnlock(p) ==
    /\ tpc[p] = "issue_unlock"
    /\ ApiLock' = Unlock(ApiLock, p)
    /\ tloc' = [tloc EXCEPT ![p].code = StatusOK]
    /\ tpc' = [tpc EXCEPT ![p] = "issue_done"]
    /\ UNCHANGED notToken
    /\ UNCHANGED <<ApiTokenList, UserIDToApiTokenList, dbTokens, nextToken,
                   minted, revoked>>

\* ---- deleteToken, member_api.go:125-162 ---------------------------------
\* lines 126-133: the empty token is refused before the lock is taken
DeleteEmpty(p) ==
    /\ tpc[p] = "idle"
    /\ tloc' = [tloc EXCEPT ![p] =
                   [TLocInit EXCEPT !.token = EmptyToken, !.code = StatusBadRequest]]
    /\ tpc' = [tpc EXCEPT ![p] = "rejected"]
    /\ UNCHANGED notToken
    /\ UNCHANGED <<ApiTokenList, UserIDToApiTokenList, ApiLock, dbTokens, nextToken,
                   minted, revoked>>

\* line 126, a non-empty token
DeleteStart(p) ==
    /\ tpc[p] = "idle"
    /\ \E t \in Tokens : tloc' = [tloc EXCEPT ![p] = [TLocInit EXCEPT !.token = t]]
    /\ tpc' = [tpc EXCEPT ![p] = "del_lock"]
    /\ UNCHANGED notToken
    /\ UNCHANGED <<ApiTokenList, UserIDToApiTokenList, ApiLock, dbTokens, nextToken,
                   minted, revoked>>

\* lines 134-135
DeleteLock(p) ==
    /\ tpc[p] = "del_lock"
    /\ CanLock(ApiLock)
    /\ ApiLock' = Lock(ApiLock, p)
    /\ tpc' = [tpc EXCEPT ![p] = "del_check"]
    /\ UNCHANGED notToken
    /\ UNCHANGED <<ApiTokenList, UserIDToApiTokenList, dbTokens, nextToken, tloc,
                   minted, revoked>>

\* lines 136-144 in the wrong order: the row is deleted before the token is looked up
DeleteNotFoundAfterDB(p) ==
    /\ tpc[p] = "del_check"
    /\ tloc[p].token \notin DOMAIN ApiTokenList
    /\ dbTokens' = dbTokens \ {tloc[p].token}
    /\ tloc' = [tloc EXCEPT ![p].code = StatusBadRequest]
    /\ tpc' = [tpc EXCEPT ![p] = "del_unlock"]
    /\ UNCHANGED notToken
    /\ UNCHANGED <<ApiTokenList, UserIDToApiTokenList, ApiLock, nextToken, minted, revoked>>

\* lines 136-142: unknown token
DeleteNotFound(p) ==
    /\ tpc[p] = "del_check"
    /\ tloc[p].token \notin DOMAIN ApiTokenList
    /\ tloc' = [tloc EXCEPT ![p].code = StatusBadRequest]
    /\ tpc' = [tpc EXCEPT ![p] = "del_unlock"]
    /\ UNCHANGED notToken
    /\ UNCHANGED <<ApiTokenList, UserIDToApiTokenList, ApiLock, dbTokens, nextToken,
                   minted, revoked>>

\* lines 136, 144: known token, delete its row
DeleteDB(p) ==
    /\ tpc[p] = "del_check"
    /\ tloc[p].token \in DOMAIN ApiTokenList
    /\ dbTokens' = dbTokens \ {tloc[p].token}
    /\ LET u == ApiTokenList[tloc[p].token].UserID
       IN  tloc' = [tloc EXCEPT ![p].u = u,
                       ![p].wasOnly = (ListOf(UserIDToApiTokenList, u) = <<tloc[p].token>>)]
    /\ tpc' = [tpc EXCEPT ![p] = "del_list"]
    /\ UNCHANGED notToken
    /\ UNCHANGED <<ApiTokenList, UserIDToApiTokenList, ApiLock, nextToken, minted, revoked>>

\* lines 147-152.  Ranging over the nil slice of a missing key assigns nothing.
DeleteFromList(p) ==
    /\ tpc[p] = "del_list"
    /\ LET u == ApiTokenList[tloc[p].token].UserID
           l == ListOf(UserIDToApiTokenList, u)
       IN  UserIDToApiTokenList' =
               IF InSeq(l, tloc[p].token)
               THEN MapSet(UserIDToApiTokenList, u, RemoveToken(l, tloc[p].token))
               ELSE UserIDToApiTokenList
    /\ tpc' = [tpc EXCEPT ![p] = "del_prune"]
    /\ UNCHANGED notToken
    /\ UNCHANGED <<ApiTokenList, ApiLock, dbTokens, nextToken, tloc, minted, revoked>>

\* lines 153-155
DeletePrune(p) ==
    /\ tpc[p] = "del_prune"
    /\ UserIDToApiTokenList' =
           PruneEmpty(UserIDToApiTokenList, ApiTokenList[tloc[p].token].UserID)
    /\ tpc' = [tpc EXCEPT ![p] = "del_map"]
    /\ UNCHANGED notToken
    /\ UNCHANGED <<ApiTokenList, ApiLock, dbTokens, nextToken, tloc, minted, revoked>>

\* lines 157-161
DeleteMap(p) ==
    /\ tpc[p] = "del_map"
    /\ ApiTokenList' = MapDelete(ApiTokenList, tloc[p].token)
    /\ tloc' = [tloc EXCEPT ![p].code = StatusOK]
    /\ revoked' = revoked \cup {tloc[p].token}
    /\ tpc' = [tpc EXCEPT ![p] = "del_unlock"]
    /\ UNCHANGED notToken
    /\ UNCHANGED <<UserIDToApiTokenList, ApiLock, dbTokens, nextToken, minted>>

\* line 135, the deferred Unlock
DeleteUnlock(p) ==
    /\ tpc[p] = "del_unlock"
    /\ ApiLock' = Unlock(ApiLock, p)
    /\ tpc' = [tpc EXCEPT ![p] = "idle"]
    /\ tloc' = [tloc EXCEPT ![p] = TLocInit]
    /\ UNCHANGED notToken
    /\ UNCHANGED <<ApiTokenList, UserIDToApiTokenList, dbTokens, nextToken,
                   minted, revoked>>

\* ---- getToken, member_api.go:58-76 --------------------------------------
\* getToken without the read lock (mutation of lines 60-61)
GetRLockNoLock(p) ==
    /\ tpc[p] = "idle"
    /\ \E u \in Users : tloc' = [tloc EXCEPT ![p] = [TLocInit EXCEPT !.u = u]]
    /\ tpc' = [tpc EXCEPT ![p] = "get_read"]
    /\ UNCHANGED notToken
    /\ UNCHANGED <<ApiTokenList, UserIDToApiTokenList, ApiLock, dbTokens, nextToken,
                   minted, revoked>>

\* lines 59-61
GetRLock(p) ==
    /\ tpc[p] = "idle"
    /\ CanRLock(ApiLock)
    /\ ApiLock' = RLock(ApiLock, p)
    /\ \E u \in Users : tloc' = [tloc EXCEPT ![p] = [TLocInit EXCEPT !.u = u]]
    /\ tpc' = [tpc EXCEPT ![p] = "get_read"]
    /\ UNCHANGED notToken
    /\ UNCHANGED <<ApiTokenList, UserIDToApiTokenList, dbTokens, nextToken,
                   minted, revoked>>

\* lines 63-64
GetRead(p) ==
    /\ tpc[p] = "get_read"
    /\ tloc' = [tloc EXCEPT ![p].tokenList = ListOf(UserIDToApiTokenList, tloc[p].u),
                            ![p].res = <<>>]
    /\ tpc' = [tpc EXCEPT ![p] = "get_loop"]
    /\ UNCHANGED notToken
    /\ UNCHANGED <<ApiTokenList, UserIDToApiTokenList, ApiLock, dbTokens, nextToken,
                   minted, revoked>>

\* lines 65-70, one iteration.  Line 68 on a token that has no ApiTokenList
\* entry dereferences a nil *ApiToken: the handler panics and its deferred
\* RUnlock runs.
GetLoop(p) ==
    /\ tpc[p] = "get_loop"
    /\ Len(tloc[p].res) < Len(tloc[p].tokenList)
    /\ LET token == tloc[p].tokenList[Len(tloc[p].res) + 1]
       IN  IF token \in DOMAIN ApiTokenList
           THEN /\ tloc' = [tloc EXCEPT ![p].res =
                      Append(@, [Token |-> token, Note |-> ApiTokenList[token].Note])]
                /\ tpc' = tpc
           ELSE /\ tloc' = [tloc EXCEPT ![p].code = StatusInternalServerError]
                /\ tpc' = [tpc EXCEPT ![p] = "get_runlock"]
    /\ UNCHANGED notToken
    /\ UNCHANGED <<ApiTokenList, UserIDToApiTokenList, ApiLock, dbTokens, nextToken,
                   minted, revoked>>

\* lines 71-75
GetRespond(p) ==
    /\ tpc[p] = "get_loop"
    /\ Len(tloc[p].res) = Len(tloc[p].tokenList)
    /\ tloc' = [tloc EXCEPT ![p].code = StatusOK]
    /\ tpc' = [tpc EXCEPT ![p] = "get_runlock"]
    /\ UNCHANGED notToken
    /\ UNCHANGED <<ApiTokenList, UserIDToApiTokenList, ApiLock, dbTokens, nextToken,
                   minted, revoked>>

\* line 61, the deferred RUnlock
GetRUnlock(p) ==
    /\ tpc[p] = "get_runlock"
    /\ ApiLock' = RUnlock(ApiLock, p)
    /\ tpc' = [tpc EXCEPT ![p] = "idle"]
    /\ tloc' = [tloc EXCEPT ![p] = TLocInit]
    /\ UNCHANGED notToken
    /\ UNCHANGED <<ApiTokenList, UserIDToApiTokenList, dbTokens, nextToken,
                   minted, revoked>>

\* a handler that has written its response returns
TokenReturn(p) ==
    /\ tpc[p] \in {"rejected", "issue_done"}
    /\ tpc' = [tpc EXCEPT ![p] = "idle"]
    /\ tloc' = [tloc EXCEPT ![p] = TLocInit]
    /\ UNCHANGED notToken
    /\ UNCHANGED <<ApiTokenList, UserIDToApiTokenList, ApiLock, dbTokens, nextToken,
                   minted, revoked>>

TokenNext ==
    \E p \in TokenProcs :
        \/ IssueReject(p) \/ IssueCreate(p) \/ IssueLock(p) \/ IssueMap(p)
        \/ IssueAppend(p) \/ IssueUnlock(p)
        \/ DeleteEmpty(p) \/ DeleteStart(p) \/ DeleteLock(p) \/ DeleteNotFound(p)
        \/ DeleteDB(p) \/ DeleteFromList(p) \/ DeletePrune(p) \/ DeleteMap(p)
        \/ DeleteUnlock(p)
        \/ GetRLock(p) \/ GetRead(p) \/ GetLoop(p)
        \/ GetRespond(p) \/ GetRUnlock(p) \/ TokenReturn(p)

\* ================================================================== cron jobs
\* model/cron.go constants used by member_api.go:300, 328, 351
CronTypeCronTask == 0
CronTypeTriggerTask == 1
CronCoverIgnoreAll == 0
CronCoverAll == 1
CronCoverAlertTrigger == 2

CronProcs == 1..NumCronProcs
CronIDs == 1..MaxCronID
TaskTypes == {CronTypeCronTask, CronTypeTriggerTask}
Covers == {CronCoverIgnoreAll, CronCoverAll, CronCoverAlertTrigger}

\* main.go:74,79 (part_000): two system timers are registered at start
SystemEntries == [e \in {1, 2} |-> [job |-> 0, def |-> 0]]

\* singleton.Cron.AddFunc / Remove (robfig/cron): Remove of an unknown entry is a no-op
EngineAdd(entries, e, job, def) == MapSet(entries, e, [job |-> job, def |-> def])
EngineRemove(entries, e) == MapDelete(entries, e)

Max(a, b) == IF a >= b THEN a ELSE b

\* Of a model.Cron the handlers read ID, TaskType and CronJobID; def stands for
\* the rest of the submitted definition.  Cover is read once, at line 328: it
\* is kept as the handler's local cover and left out of the stored record.
NoCron == [ID |-> 0, TaskType |-> 0, CronJobID |-> 0, def |-> 0]
\* removeCalls counts the handler's calls of singleton.Cron.Remove.
CLocInit == [cr |-> NoCron, cover |-> 0, err |-> FALSE, id |-> 0, code |-> 0,
             removeCalls |-> 0]

\* the guard left out: Remove is called whatever the lookup gave
RemovesTimerAlways(found, jobID) == TRUE
\* lines 194 and 371: Remove is called for a record that exists and holds a handle
RemovesTimer(found, jobID) == found /\ jobID # 0

CronInit ==
    /\ Crons = EmptyMap
    /\ CronLock = Unlocked
    /\ CronEntries = SystemEntries
    /\ nextEntryID = 3
    /\ dbCrons = EmptyMap
    /\ nextCronID = 1
    /\ nextDef = 1
    /\ cpc = [p \in CronProcs |-> "idle"]
    /\ cloc = [p \in CronProcs |-> CLocInit]
    /\ cronFatal = FALSE

\* ---- addOrEditCron, member_api.go:310-381 -------------------------------
\* lines 313-325 fail to bind: cr stays zero, line 328 does not match, the
\* transaction is begun and rolled back (337, 358) and 400 is answered (360-365)
AoeBindFail(p) ==
    /\ ~cronFatal
    /\ cpc[p] = "idle"
    /\ cloc' = [cloc EXCEPT ![p] = [CLocInit EXCEPT !.code = StatusBadRequest]]
    /\ cpc' = [cpc EXCEPT ![p] = "rejected"]
    /\ UNCHANGED notCron
    /\ UNCHANGED <<Crons, CronLock, CronEntries, nextEntryID, dbCrons, nextCronID, nextDef,
                   cronFatal>>

\* line 328 without its test: no form is refused
RejectsFormNever(taskType, cover) == FALSE
\* line 328: the test that refuses a scheduled task with the alert-trigger cover
RejectsForm(taskType, cover) ==
    taskType = CronTypeCronTask /\ cover = CronCoverAlertTrigger

\* lines 327-335
AoeReject(p) ==
    /\ ~cronFatal
    /\ cpc[p] = "idle"
    /\ \E id \in 0..MaxCronID, tt \in TaskTypes, cover \in Covers :
         /\ RejectsForm(tt, cover)
         /\ cloc' = [cloc EXCEPT ![p] =
                [CLocInit EXCEPT !.cr = [NoCron EXCEPT !.ID = id, !.TaskType = tt],
                                 !.cover = cover,
                                 !.code = StatusBadRequest]]
    /\ cpc' = [cpc EXCEPT ![p] = "rejected"]
    /\ UNCHANGED notCron
    /\ UNCHANGED <<Crons, CronLock, CronEntries, nextEntryID, dbCrons, nextCronID, nextDef,
                   cronFatal>>

\* lines 313-337: a bound form that passes line 328; the transaction begins
AoeBegin(p) ==
    /\ ~cronFatal
    /\ cpc[p] = "idle"
    /\ nextDef <= MaxDefs
    /\ \E id \in 0..MaxCronID, tt \in TaskTypes, cover \in Covers :
         /\ ~RejectsForm(tt, cover)
         /\ cloc' = [cloc EXCEPT ![p] =
                [CLocInit EXCEPT !.cr = [NoCron EXCEPT !.ID = id, !.TaskType = tt,
                                                       !.def = nextDef],
                                 !.cover = cover]]
    /\ nextDef' = nextDef + 1
    /\ cpc' = [cpc EXCEPT ![p] = "aoe_write"]
    /\ UNCHANGED notCron
    /\ UNCHANGED <<Crons, CronLock, CronEntries, nextEntryID, dbCrons, nextCronID, cronFatal>>

\* lines 343-347: tx.Create gives the row a fresh id, tx.Save keeps cf.ID;
\* either may fail (and Create does once the modelled id range is used up).
\* cf.Cover is not read after line 328, and the local stops tracking it here.
AoeWrite(p) ==
    /\ ~cronFatal
    /\ cpc[p] = "aoe_write"
    /\ \E ok \in IF cloc[p].cr.ID = 0 /\ nextCronID > MaxCronID THEN {FALSE} ELSE BOOLEAN :
         IF ok
         THEN LET id == IF cloc[p].cr.ID = 0 THEN nextCronID ELSE cloc[p].cr.ID
              IN  /\ cloc' = [cloc EXCEPT ![p].cr.ID = id, ![p].cover = 0]
                  /\ nextCronID' = Max(nextCronID, id + 1)
                  /\ cpc' = [cpc EXCEPT ![p] = "aoe_addfunc"]
         ELSE /\ cloc' = [cloc EXCEPT ![p].err = TRUE, ![p].cover = 0]
              /\ nextCronID' = nextCronID
              /\ cpc' = [cpc EXCEPT ![p] = "aoe_commit"]
    /\ UNCHANGED notCron
    /\ UNCHANGED <<Crons, CronLock, CronEntries, nextEntryID, dbCrons, nextDef, cronFatal>>

\* line 351 without its test: every task gets a timer
NeedsTimerAlways(taskType) == TRUE
\* line 351: only a scheduled task gets a timer
NeedsTimer(taskType) == taskType = CronTypeCronTask

\* lines 349-354: AddFunc fails on a schedule it cannot parse
AoeAddFunc(p) ==
    /\ ~cronFatal
    /\ cpc[p] = "aoe_addfunc"
    /\ IF NeedsTimer(cloc[p].cr.TaskType)
       THEN \E ok \in BOOLEAN :
              IF ok
              THEN /\ CronEntries' = EngineAdd(CronEntries, nextEntryID,
                                               cloc[p].cr.ID, cloc[p].cr.def)
                   /\ nextEntryID' = nextEntryID + 1
                   /\ cloc' = [cloc EXCEPT ![p].cr.CronJobID = nextEntryID]
              ELSE /\ cloc' = [cloc EXCEPT ![p].err = TRUE]
                   /\ UNCHANGED <<CronEntries, nextEntryID>>
       ELSE UNCHANGED <<CronEntries, nextEntryID, cloc>>
    /\ cpc' = [cpc EXCEPT ![p] = "aoe_commit"]
    /\ UNCHANGED notCron
    /\ UNCHANGED <<Crons, CronLock, dbCrons, nextCronID, nextDef, cronFatal>>

\* lines 355-366: commit (which may fail) or roll back; an error answers 400
AoeCommit(p) ==
    /\ ~cronFatal
    /\ cpc[p] = "aoe_commit"
    /\ \E ok \in IF cloc[p].err THEN {FALSE} ELSE BOOLEAN :
         IF ok
         THEN /\ dbCrons' = MapSet(dbCrons, cloc[p].cr.ID, cloc[p].cr.def)
              /\ cpc' = [cpc EXCEPT ![p] = "aoe_lock"]
              /\ cloc' = cloc
         ELSE /\ dbCrons' = dbCrons
              /\ cpc' = [cpc EXCEPT ![p] = "rejected"]
              /\ cloc' = [cloc EXCEPT ![p].err = FALSE, ![p].code = StatusBadRequest]
    /\ UNCHANGED notCron
    /\ UNCHANGED <<Crons, CronLock, CronEntries, nextEntryID, nextCronID, nextDef, cronFatal>>

\* lines 368-369
AoeLock(p) ==
    /\ ~cronFatal
    /\ cpc[p] = "aoe_lock"
    /\ CanLock(CronLock)
    /\ CronLock' = Lock(CronLock, p)
    /\ cpc' = [cpc EXCEPT ![p] = "aoe_old"]
    /\ UNCHANGED notCron
    /\ UNCHANGED <<Crons, CronEntries, nextEntryID, dbCrons, nextCronID, nextDef, cloc,
                   cronFatal>>

\* lines 370-373
AoeRemoveOld(p) ==
    /\ ~cronFatal
    /\ cpc[p] = "aoe_old"
    /\ LET id == cloc[p].cr.ID
           found == id \in DOMAIN Crons
           jobID == IF found THEN Crons[id].CronJobID ELSE 0
       IN  IF RemovesTimer(found, jobID)
           THEN /\ CronEntries' = EngineRemove(CronEntries, jobID)
                /\ cloc' = [cloc EXCEPT ![p].removeCalls = @ + 1]
           ELSE UNCHANGED <<CronEntries, cloc>>
    /\ cpc' = [cpc EXCEPT ![p] = "aoe_insert"]
    /\ UNCHANGED notCron
    /\ UNCHANGED <<Crons, CronLock, nextEntryID, dbCrons, nextCronID, nextDef, cronFatal>>

\* lines 375-380
AoeInsert(p) ==
    /\ ~cronFatal
    /\ cpc[p] = "aoe_insert"
    /\ Crons' = MapSet(MapDelete(Crons, cloc[p].cr.ID), cloc[p].cr.ID, cloc[p].cr)
    /\ cloc' = [cloc EXCEPT ![p].code = StatusOK]
    /\ cpc' = [cpc EXCEPT ![p] = "aoe_unlock"]
    /\ UNCHANGED notCron
    /\ UNCHANGED <<CronLock, CronEntries, nextEntryID, dbCrons, nextCronID, nextDef,
                   cronFatal>>

\* line 369, the deferred Unlock
AoeUnlock(p) ==
    /\ ~cronFatal
    /\ cpc[p] = "aoe_unlock"
    /\ CronLock' = Unlock(CronLock, p)
    /\ cpc' = [cpc EXCEPT ![p] = "idle"]
    /\ cloc' = [cloc EXCEPT ![p] = CLocInit]
    /\ UNCHANGED notCron
    /\ UNCHANGED <<Crons, CronEntries, nextEntryID, dbCrons, nextCronID, nextDef, cronFatal>>

\* ---- delete, the "cron" branch, member_api.go:164-215 -------------------
\* lines 165-172
CronDeleteBadID(p) ==
    /\ ~cronFatal
    /\ cpc[p] = "idle"
    /\ cloc' = [cloc EXCEPT ![p] = [CLocInit EXCEPT !.code = StatusBadRequest]]
    /\ cpc' = [cpc EXCEPT ![p] = "rejected"]
    /\ UNCHANGED notCron
    /\ UNCHANGED <<Crons, CronLock, CronEntries, nextEntryID, dbCrons, nextCronID, nextDef,
                   cronFatal>>

\* lines 165, 188-190, 205-211: the row is deleted, or the store fails
CronDeleteDB(p) ==
    /\ ~cronFatal
    /\ cpc[p] = "idle"
    /\ \E id \in CronIDs, ok \in BOOLEAN :
         IF ok
         THEN /\ dbCrons' = MapDelete(dbCrons, id)
              /\ cloc' = [cloc EXCEPT ![p] = [CLocInit EXCEPT !.id = id]]
              /\ cpc' = [cpc EXCEPT ![p] = "del_rlock"]
         ELSE /\ dbCrons' = dbCrons
              /\ cloc' = [cloc EXCEPT ![p] =
                     [CLocInit EXCEPT !.id = id, !.code = StatusBadRequest]]
              /\ cpc' = [cpc EXCEPT ![p] = "rejected"]
    /\ UNCHANGED notCron
    /\ UNCHANGED <<Crons, CronLock, CronEntries, nextEntryID, nextCronID, nextDef, cronFatal>>

\* lines 191-192: the read lock, not the write lock
CronDeleteRLock(p) ==
    /\ ~cronFatal
    /\ cpc[p] = "del_rlock"
    /\ CanRLock(CronLock)
    /\ CronLock' = RLock(CronLock, p)
    /\ cpc' = [cpc EXCEPT ![p] = "del_read"]
    /\ UNCHANGED notCron
    /\ UNCHANGED <<Crons, CronEntries, nextEntryID, dbCrons, nextCronID, nextDef, cloc,
                   cronFatal>>

\* the statements that write the Crons map, and those that read it
AtCronsWrite(q) == cpc[q] \in {"aoe_insert", "del_map"}
AtCronsRead(q) == cpc[q] \in {"aoe_old", "del_read"}

\* A map access that is not ordered after another goroutine's map write is a
\* data race: the runtime either lets it through or throws a fatal error.
ReadOutcomes(p) ==
    IF \E q \in CronProcs \ {p} : AtCronsWrite(q) THEN BOOLEAN ELSE {FALSE}
WriteOutcomes(p) ==
    IF \E q \in CronProcs \ {p} : AtCronsWrite(q) \/ AtCronsRead(q) THEN BOOLEAN ELSE {FALSE}

\* lines 193-196
CronDeleteRead(p) ==
    /\ ~cronFatal
    /\ cpc[p] = "del_read"
    /\ \E fatal \in ReadOutcomes(p) :
         IF fatal
         THEN /\ cronFatal' = TRUE
              /\ UNCHANGED <<CronEntries, cpc, cloc>>
         ELSE LET id == cloc[p].id
                  found == id \in DOMAIN Crons
                  jobID == IF found THEN Crons[id].CronJobID ELSE 0
              IN  /\ IF RemovesTimer(found, jobID)
                     THEN /\ CronEntries' = EngineRemove(CronEntries, jobID)
                          /\ cloc' = [cloc EXCEPT ![p].removeCalls = @ + 1]
                     ELSE UNCHANGED <<CronEntries, cloc>>
                  /\ cpc' = [cpc EXCEPT ![p] = "del_map"]
                  /\ cronFatal' = cronFatal
    /\ UNCHANGED notCron
    /\ UNCHANGED <<Crons, CronLock, nextEntryID, dbCrons, nextCronID, nextDef>>

\* lines 197, 212-214
CronDeleteMap(p) ==
    /\ ~cronFatal
    /\ cpc[p] = "del_map"
    /\ \E fatal \in WriteOutcomes(p) :
         IF fatal
         THEN /\ cronFatal' = TRUE
              /\ UNCHANGED <<cloc, Crons, cpc>>
         ELSE /\ Crons' = MapDelete(Crons, cloc[p].id)
              /\ cloc' = [cloc EXCEPT ![p].code = StatusOK]
              /\ cpc' = [cpc EXCEPT ![p] = "del_runlock"]
              /\ cronFatal' = cronFatal
    /\ UNCHANGED notCron
    /\ UNCHANGED <<CronLock, CronEntries, nextEntryID, dbCrons, nextCronID, nextDef>>

\* line 192, the deferred RUnlock
CronDeleteRUnlock(p) ==
    /\ ~cronFatal
    /\ cpc[p] = "del_runlock"
    /\ CronLock' = RUnlock(CronLock, p)
    /\ cpc' = [cpc EXCEPT ![p] = "idle"]
    /\ cloc' = [cloc EXCEPT ![p] = CLocInit]
    /\ UNCHANGED notCron
    /\ UNCHANGED <<Crons, CronEntries, nextEntryID, dbCrons, nextCronID, nextDef, cronFatal>>

\* a handler that has answered an error returns
CronReturn(p) ==
    /\ ~cronFatal
    /\ cpc[p] = "rejected"
    /\ cpc' = [cpc EXCEPT ![p] = "idle"]
    /\ cloc' = [cloc EXCEPT ![p] = CLocInit]
    /\ UNCHANGED notCron
    /\ UNCHANGED <<Crons, CronLock, CronEntries, nextEntryID, dbCrons, nextCronID, nextDef,
                   cronFatal>>

CronNext ==
    \E p \in CronProcs :
        \/ AoeBindFail(p) \/ AoeReject(p) \/ AoeBegin(p) \/ AoeWrite(p) \/ AoeAddFunc(p)
        \/ AoeCommit(p) \/ AoeLock(p) \/ AoeRemoveOld(p) \/ AoeInsert(p) \/ AoeUnlock(p)
        \/ CronDeleteBadID(p) \/ CronDeleteDB(p) \/ CronDeleteRLock(p) \/ CronDeleteRead(p)
        \/ CronDeleteMap(p) \/ CronDeleteRUnlock(p) \/ CronReturn(p)

\* ------------------------------------------------------------------ cron claims
CronQuiescent == \A p \in CronProcs : cpc[p] = "idle"
JobTimers == {e \in DOMAIN CronEntries : CronEntries[e].job # 0}
HoldersOf(e) == {id \in DOMAIN Crons : Crons[id].CronJobID = e}

\* C4: after every completed addOrEditCron or cron delete, each job timer that
\* addOrEditCron registered in the engine is the CronJobID of exactly one
\* record of Crons; and the timer a record holds is out of the engine before
\* the record is replaced or deleted.
C4_NoOrphanTimers ==
    /\ CronQuiescent => \A e \in JobTimers : Cardinality(HoldersOf(e)) = 1
    /\ \A p \in CronProcs :
          LET id == IF cpc[p] = "aoe_insert" THEN cloc[p].cr.ID ELSE cloc[p].id
          IN  (cpc[p] \in {"aoe_insert", "del_map"} /\ id \in DOMAIN Crons
                 /\ Crons[id].CronJobID # 0)
                  => Crons[id].CronJobID \notin DOMAIN CronEntries

\* C5: no write of the Crons map overlaps another write of it or a reader
\* that holds CronLock's read lock.
C5_MutationsLinearized ==
    \A p \in CronProcs :
        AtCronsWrite(p) =>
            \A q \in CronProcs \ {p} : ~AtCronsWrite(q) /\ ~HoldsRead(CronLock, q)

\* ================================================================== agents and dispatch
WebProcs == 1..NumWebProcs
\* the goroutine main starts at part_000:130
ReportTask == NumWebProcs + 1
ServerIDs == 1..MaxServerID
\* a request may name any uint64, known or not; 0 is the id of the zero model.Server
TargetIDs == 0..MaxServerID
TargetLists == UNION {[1..n -> TargetIDs] : n \in 0..MaxTargets}
SessionIDs == 1..MaxSessions

\* what a handler holds after  server := singleton.ServerList[id]
NilServer == [nil |-> TRUE, ID |-> 0, TaskStream |-> 0]
Lookup(m, id) ==
    IF id \in DOMAIN m
    THEN [nil |-> FALSE, ID |-> m[id].ID, TaskStream |-> m[id].TaskStream]
    ELSE NilServer

\* member_api.go:479   server != nil && server.TaskStream != nil
HasStream(server) == ~server.nil /\ server.TaskStream # 0

\* member_api.go:479-489: the line written for one target
ForceUpdateOutcome(server, sendErr) ==
    IF HasStream(server)
    THEN IF sendErr THEN "failed" ELSE "success"
    ELSE "offline"

\* member_api.go:475: the loop goes on to the next target whatever the last one did
FuNextPcStopOnError(i, n, sendErr) ==
    IF sendErr \/ i + 1 > n THEN "fu_respond" ELSE "fu_rlock"
FuNextPc(i, n, sendErr) == IF i + 1 > n THEN "fu_respond" ELSE "fu_rlock"

\* member_api.go:427-428: copier.Copy into a zero model.Server; copying from
\* the nil pointer of a missing key leaves the zero value
ZeroServer == [ID |-> 0, TaskStream |-> 0]
\* a copy that leaves the TaskStream field behind
CopyServerNoStream(m, id) ==
    IF id \in DOMAIN m THEN [m[id] EXCEPT !.TaskStream = 0] ELSE ZeroServer
CopyServer(m, id) == IF id \in DOMAIN m THEN m[id] ELSE ZeroServer

ALocInit == [ids |-> <<>>, i |-> 0, result |-> <<>>, sends |-> <<>>, server |-> NilServer,
             streamId |-> 0, target |-> 0, created |-> FALSE, found |-> FALSE,
             closeCalls |-> 0, exit |-> "", err |-> FALSE, code |-> 0]

\* every registry the rpc server can have built: each agent unknown, known
\* without a stream, or known with its stream
InitialServerLists ==
    UNION {{[k \in S |-> [ID |-> k, TaskStream |-> IF f[k] THEN k ELSE 0]] :
               f \in [S -> BOOLEAN]} : S \in SUBSET ServerIDs}

AgentInitWith(lists) ==
    /\ ServerList \in lists
    /\ ServerLock = Unlocked
    /\ ioStreams = EmptyMap
    /\ nextStream = 1
    /\ delivered = {}
    /\ apc = [p \in WebProcs |-> "idle"]
    /\ aloc = [p \in WebProcs |-> ALocInit]
    /\ ppc = [p \in WebProcs |-> "none"]
    /\ wsOpen = [p \in WebProcs |-> FALSE]
    /\ dpc = "sleep"
    /\ dloc = [remaining |-> {}, cur |-> 0]

AgentInit == AgentInitWith(InitialServerLists)
\* the agent side at rest, for the specifications of the other registries
AgentAtRest == AgentInitWith({EmptyMap})

\* ---- forceUpdate, member_api.go:463-496 ---------------------------------
\* lines 464-471
FuBindFail(p) ==
    /\ apc[p] = "idle"
    /\ aloc' = [aloc EXCEPT ![p] = [ALocInit EXCEPT !.code = StatusBadRequest]]
    /\ apc' = [apc EXCEPT ![p] = "rejected"]
    /\ UNCHANGED notAgent
    /\ UNCHANGED <<ServerList, ServerLock, ioStreams, nextStream, delivered, ppc, wsOpen,
                   dpc, dloc>>

\* lines 464-475
FuBegin(p) ==
    /\ apc[p] = "idle"
    /\ \E ids \in TargetLists :
         /\ aloc' = [aloc EXCEPT ![p] = [ALocInit EXCEPT !.ids = ids, !.i = 1]]
         /\ apc' = [apc EXCEPT ![p] = IF Len(ids) = 0 THEN "fu_respond" ELSE "fu_rlock"]
    /\ UNCHANGED notAgent
    /\ UNCHANGED <<ServerList, ServerLock, ioStreams, nextStream, delivered, ppc, wsOpen,
                   dpc, dloc>>

\* lines 476-477
FuRLockRead(p) ==
    /\ apc[p] = "fu_rlock"
    /\ CanRLock(ServerLock)
    /\ ServerLock' = RLock(ServerLock, p)
    /\ aloc' = [aloc EXCEPT ![p].server = Lookup(ServerList, aloc[p].ids[aloc[p].i])]
    /\ apc' = [apc EXCEPT ![p] = "fu_runlock"]
    /\ UNCHANGED notAgent
    /\ UNCHANGED <<ServerList, ioStreams, nextStream, delivered, ppc, wsOpen, dpc, dloc>>

\* line 478
FuRUnlock(p) ==
    /\ apc[p] = "fu_runlock"
    /\ ServerLock' = RUnlock(ServerLock, p)
    /\ apc' = [apc EXCEPT ![p] = "fu_send"]
    /\ UNCHANGED notAgent
    /\ UNCHANGED <<ServerList, ioStreams, nextStream, delivered, aloc, ppc, wsOpen,
                   dpc, dloc>>

\* lines 479-489 with a clean-up added: a target whose Send failed loses its stream
FuSendDropsFailed(p) ==
    /\ apc[p] = "fu_send"
    /\ \E sendErr \in IF HasStream(aloc[p].server) THEN BOOLEAN ELSE {FALSE} :
         /\ aloc' = [aloc EXCEPT
                ![p].result = Append(@, [id |-> aloc[p].ids[aloc[p].i],
                                         outcome |-> ForceUpdateOutcome(aloc[p].server, sendErr)]),
                ![p].sends = Append(@, [server |-> aloc[p].server, sendErr |-> sendErr]),
                ![p].i = @ + 1]
         /\ apc' = [apc EXCEPT ![p] = FuNextPc(aloc[p].i, Len(aloc[p].ids), sendErr)]
         /\ ServerList' = IF sendErr /\ aloc[p].server.ID \in DOMAIN ServerList
                          THEN [ServerList EXCEPT ![aloc[p].server.ID].TaskStream = 0]
                          ELSE ServerList
    /\ UNCHANGED notAgent
    /\ UNCHANGED <<ServerLock, ioStreams, nextStream, delivered, ppc, wsOpen, dpc, dloc>>

\* lines 479-489, then the loop's i++ and test (475)
FuSend(p) ==
    /\ apc[p] = "fu_send"
    /\ \E sendErr \in IF HasStream(aloc[p].server) THEN BOOLEAN ELSE {FALSE} :
         /\ aloc' = [aloc EXCEPT
                ![p].result = Append(@, [id |-> aloc[p].ids[aloc[p].i],
                                         outcome |-> ForceUpdateOutcome(aloc[p].server, sendErr)]),
                ![p].sends = Append(@, [server |-> aloc[p].server, sendErr |-> sendErr]),
                ![p].i = @ + 1]
         /\ apc' = [apc EXCEPT ![p] = FuNextPc(aloc[p].i, Len(aloc[p].ids), sendErr)]
    /\ UNCHANGED notAgent
    /\ UNCHANGED <<ServerList, ServerLock, ioStreams, nextStream, delivered, ppc, wsOpen,
                   dpc, dloc>>

\* lines 492-495
FuRespond(p) ==
    /\ apc[p] = "fu_respond"
    /\ aloc' = [aloc EXCEPT ![p].code = StatusOK]
    /\ apc' = [apc EXCEPT ![p] = "fu_done"]
    /\ UNCHANGED notAgent
    /\ UNCHANGED <<ServerList, ServerLock, ioStreams, nextStream, delivered, ppc, wsOpen,
                   dpc, dloc>>

\* ---- batchUpdateServerGroup, member_api.go:405-461 ----------------------
\* lines 406-421: the request does not bind, or the store fails
BuReject(p) ==
    /\ apc[p] = "idle"
    /\ aloc' = [aloc EXCEPT ![p] = [ALocInit EXCEPT !.code = StatusBadRequest]]
    /\ apc' = [apc EXCEPT ![p] = "rejected"]
    /\ UNCHANGED notAgent
    /\ UNCHANGED <<ServerList, ServerLock, ioStreams, nextStream, delivered, ppc, wsOpen,
                   dpc, dloc>>

\* lines 406-415
BuBegin(p) ==
    /\ apc[p] = "idle"
    /\ \E ids \in TargetLists :
         aloc' = [aloc EXCEPT ![p] = [ALocInit EXCEPT !.ids = ids, !.i = 1]]
    /\ apc' = [apc EXCEPT ![p] = "bu_lock"]
    /\ UNCHANGED notAgent
    /\ UNCHANGED <<ServerList, ServerLock, ioStreams, nextStream, delivered, ppc, wsOpen,
                   dpc, dloc>>

\* line 423
BuLock(p) ==
    /\ apc[p] = "bu_lock"
    /\ CanLock(ServerLock)
    /\ ServerLock' = Lock(ServerLock, p)
    /\ apc' = [apc EXCEPT ![p] = "bu_loop"]
    /\ UNCHANGED notAgent
    /\ UNCHANGED <<ServerList, ioStreams, nextStream, delivered, aloc, ppc, wsOpen,
                   dpc, dloc>>

\* lines 425-452, one iteration: the copy is stored under the copy's own ID
BuLoop(p) ==
    /\ apc[p] = "bu_loop"
    /\ aloc[p].i <= Len(aloc[p].ids)
    /\ LET s == CopyServer(ServerList, aloc[p].ids[aloc[p].i])
       IN  ServerList' = MapSet(ServerList, s.ID, s)
    /\ aloc' = [aloc EXCEPT ![p].i = @ + 1]
    /\ UNCHANGED notAgent
    /\ UNCHANGED <<ServerLock, ioStreams, nextStream, delivered, apc, ppc, wsOpen,
                   dpc, dloc>>

\* lines 454-460
BuUnlock(p) ==
    /\ apc[p] = "bu_loop"
    /\ aloc[p].i > Len(aloc[p].ids)
    /\ ServerLock' = Unlock(ServerLock, p)
    /\ aloc' = [aloc EXCEPT ![p].code = StatusOK]
    /\ apc' = [apc EXCEPT ![p] = "bu_done"]
    /\ UNCHANGED notAgent
    /\ UNCHANGED <<ServerList, ioStreams, nextStream, delivered, ppc, wsOpen, dpc, dloc>>

\* ---- dispatchReportInfoTask, part_000:145-158 ---------------------------
\* lines 146-149: after the sleep the read lock is taken for the whole loop
DrRLock ==
    /\ dpc = "sleep"
    /\ CanRLock(ServerLock)
    /\ ServerLock' = RLock(ServerLock, ReportTask)
    /\ dloc' = [remaining |-> DOMAIN ServerList, cur |-> 0]
    /\ dpc' = "loop"
    /\ UNCHANGED notAgent
    /\ UNCHANGED <<ServerList, ioStreams, nextStream, delivered, apc, aloc, ppc, wsOpen>>

\* lines 149-152: the range yields the servers in any order
DrVisit ==
    /\ dpc = "loop"
    /\ \E id \in dloc.remaining :
         IF HasStream(Lookup(ServerList, id))
         THEN /\ dloc' = [dloc EXCEPT !.cur = id]
              /\ dpc' = "send"
         ELSE /\ dloc' = [dloc EXCEPT !.remaining = @ \ {id}]
              /\ dpc' = dpc
    /\ UNCHANGED notAgent
    /\ UNCHANGED <<ServerList, ServerLock, ioStreams, nextStream, delivered, apc, aloc,
                   ppc, wsOpen>>

\* lines 153-156: the result of Send is dropped
DrSend ==
    /\ dpc = "send"
    /\ dloc' = [remaining |-> dloc.remaining \ {dloc.cur}, cur |-> 0]
    /\ dpc' = "loop"
    /\ UNCHANGED notAgent
    /\ UNCHANGED <<ServerList, ServerLock, ioStreams, nextStream, delivered, apc, aloc,
                   ppc, wsOpen>>

\* line 148, the deferred RUnlock
DrRUnlock ==
    /\ dpc = "loop"
    /\ dloc.remaining = {}
    /\ ServerLock' = RUnlock(ServerLock, ReportTask)
    /\ dpc' = "done"
    /\ UNCHANGED notAgent
    /\ UNCHANGED <<ServerList, ioStreams, nextStream, delivered, apc, aloc, ppc, wsOpen,
                   dloc>>

\* a handler that has written its response returns; a handler whose keepalive
\* goroutine still runs is not taken for the next request
WebReturn(p) ==
    /\ apc[p] \in {"rejected", "fu_done", "bu_done", "cf_returned", "fm_returned"}
    /\ ppc[p] \in {"none", "done"}
    /\ apc' = [apc EXCEPT ![p] = "idle"]
    /\ aloc' = [aloc EXCEPT ![p] = ALocInit]
    /\ ppc' = [ppc EXCEPT ![p] = "none"]
    /\ UNCHANGED notAgent
    /\ UNCHANGED <<ServerList, ServerLock, ioStreams, nextStream, delivered, wsOpen,
                   dpc, dloc>>

DispatchNext ==
    \/ \E p \in WebProcs :
        \/ FuBindFail(p) \/ FuBegin(p) \/ FuRLockRead(p) \/ FuRUnlock(p) \/ FuSend(p)
        \/ FuRespond(p)
        \/ BuReject(p) \/ BuBegin(p) \/ BuLock(p) \/ BuLoop(p) \/ BuUnlock(p)
        \/ WebReturn(p)
    \/ DrRLock \/ DrVisit \/ DrSend \/ DrRUnlock

\* ================================================================== file-manager sessions
\* The session table of rpc.NezhaHandlerSingleton (service/rpc, not in the
\* sources held here), after spec section 4.3.
NewSession == [agent |-> FALSE, user |-> 0, relaying |-> FALSE]
CreateStream(m, id) == MapSet(m, id, NewSession)
GetStreamErr(m, id) == id \notin DOMAIN m
CloseStream(m, id) == MapDelete(m, id)
UserConnectedErr(m, id) == id \notin DOMAIN m \/ ~m[id].agent \/ m[id].user # 0
UserConnected(m, id, p) == [m EXCEPT ![id].user = p]
CanRelay(m, id, p) == id \in DOMAIN m /\ m[id].agent /\ m[id].user = p

\* strconv.Atoi of the id query parameter failed
NoNumber == -1
FMTargets == TargetIDs \cup {NoNumber}

\* ---- createFM, common_page.go:211-286 -----------------------------------
\* line 238 moved above the test of line 213: the session record is created
\* before the request is turned away
CfUnauthorizedCreates(p) ==
    /\ apc[p] = "idle"
    /\ nextStream <= MaxSessions
    /\ aloc' = [aloc EXCEPT ![p] = [ALocInit EXCEPT !.exit = "unauthorized"]]
    /\ ioStreams' = CreateStream(ioStreams, nextStream)
    /\ nextStream' = nextStream + 1
    /\ apc' = [apc EXCEPT ![p] = "cf_returned"]
    /\ UNCHANGED notAgent
    /\ UNCHANGED <<ServerList, ServerLock, delivered, ppc, wsOpen, dpc, dloc>>

\* lines 212-222
CfUnauthorized(p) ==
    /\ apc[p] = "idle"
    /\ aloc' = [aloc EXCEPT ![p] = [ALocInit EXCEPT !.exit = "unauthorized"]]
    /\ apc' = [apc EXCEPT ![p] = "cf_returned"]
    /\ UNCHANGED notAgent
    /\ UNCHANGED <<ServerList, ServerLock, ioStreams, nextStream, delivered, ppc, wsOpen,
                   dpc, dloc>>

\* lines 224-236
CfUUIDFail(p) ==
    /\ apc[p] = "idle"
    /\ aloc' = [aloc EXCEPT ![p] = [ALocInit EXCEPT !.exit = "uuid"]]
    /\ apc' = [apc EXCEPT ![p] = "cf_returned"]
    /\ UNCHANGED notAgent
    /\ UNCHANGED <<ServerList, ServerLock, ioStreams, nextStream, delivered, ppc, wsOpen,
                   dpc, dloc>>

\* lines 212-238: an authorized request gets a fresh id and its session record
CfCreate(p) ==
    /\ apc[p] = "idle"
    /\ nextStream <= MaxSessions
    /\ \E target \in FMTargets :
         aloc' = [aloc EXCEPT ![p] = [ALocInit EXCEPT !.streamId = nextStream,
                                                      !.target = target, !.created = TRUE]]
    /\ ioStreams' = CreateStream(ioStreams, nextStream)
    /\ nextStream' = nextStream + 1
    /\ apc' = [apc EXCEPT ![p] = "cf_parse"]
    /\ UNCHANGED notAgent
    /\ UNCHANGED <<ServerList, ServerLock, delivered, ppc, wsOpen, dpc, dloc>>

\* lines 240-250
CfParse(p) ==
    /\ apc[p] = "cf_parse"
    /\ IF aloc[p].target = NoNumber
       THEN /\ aloc' = [aloc EXCEPT ![p].exit = "parse"]
            /\ apc' = [apc EXCEPT ![p] = "cf_returned"]
       ELSE /\ aloc' = aloc
            /\ apc' = [apc EXCEPT ![p] = "cf_rlock"]
    /\ UNCHANGED notAgent
    /\ UNCHANGED <<ServerList, ServerLock, ioStreams, nextStream, delivered, ppc, wsOpen,
                   dpc, dloc>>

\* lines 252-253
CfRLockRead(p) ==
    /\ apc[p] = "cf_rlock"
    /\ CanRLock(ServerLock)
    /\ ServerLock' = RLock(ServerLock, p)
    /\ aloc' = [aloc EXCEPT ![p].server = Lookup(ServerList, aloc[p].target)]
    /\ apc' = [apc EXCEPT ![p] = "cf_runlock"]
    /\ UNCHANGED notAgent
    /\ UNCHANGED <<ServerList, ioStreams, nextStream, delivered, ppc, wsOpen, dpc, dloc>>

\* lines 254-264
CfRUnlock(p) ==
    /\ apc[p] = "cf_runlock"
    /\ ServerLock' = RUnlock(ServerLock, p)
    /\ IF aloc[p].server.nil
       THEN /\ aloc' = [aloc EXCEPT ![p].exit = "noserver"]
            /\ apc' = [apc EXCEPT ![p] = "cf_returned"]
       ELSE /\ aloc' = aloc
            /\ apc' = [apc EXCEPT ![p] = "cf_send"]
    /\ UNCHANGED notAgent
    /\ UNCHANGED <<ServerList, ioStreams, nextStream, delivered, ppc, wsOpen, dpc, dloc>>

\* lines 266-285.  server.TaskStream is not tested: calling Send on the nil
\* interface of an agent without a stream is a nil dereference, and the
\* handler panics.
CfSend(p) ==
    /\ apc[p] = "cf_send"
    /\ IF aloc[p].server.TaskStream = 0
       THEN /\ aloc' = [aloc EXCEPT ![p].exit = "panic",
                                    ![p].code = StatusInternalServerError]
            /\ delivered' = delivered
       ELSE \E sendErr \in BOOLEAN :
              IF sendErr
              THEN /\ aloc' = [aloc EXCEPT ![p].exit = "sendfail"]
                   /\ delivered' = delivered
              ELSE /\ aloc' = [aloc EXCEPT ![p].exit = "ok", ![p].code = StatusOK]
                   /\ delivered' = delivered \cup {aloc[p].streamId}
    /\ apc' = [apc EXCEPT ![p] = "cf_returned"]
    /\ UNCHANGED notAgent
    /\ UNCHANGED <<ServerList, ServerLock, ioStreams, nextStream, ppc, wsOpen, dpc, dloc>>

\* the agent, told to open the session, attaches its half (AttachAgentSide)
AgentAttach(id) ==
    /\ id \in delivered
    /\ id \in DOMAIN ioStreams
    /\ ~ioStreams[id].agent
    /\ ioStreams' = [ioStreams EXCEPT ![id].agent = TRUE]
    /\ UNCHANGED notAgent
    /\ UNCHANGED <<ServerList, ServerLock, nextStream, delivered, apc, aloc, ppc, wsOpen,
                   dpc, dloc>>

\* ---- fm, common_page.go:164-209 -----------------------------------------
\* lines 165-176 without the test of GetStream's error: every request goes on
FmGetStreamNoLookup(p) ==
    /\ apc[p] = "idle"
    /\ \E id \in SessionIDs :
         aloc' = [aloc EXCEPT ![p] = [ALocInit EXCEPT !.streamId = id, !.found = TRUE]]
    /\ apc' = [apc EXCEPT ![p] = "fm_upgrade"]
    /\ UNCHANGED notAgent
    /\ UNCHANGED <<ServerList, ServerLock, ioStreams, nextStream, delivered, ppc, wsOpen,
                   dpc, dloc>>

\* line 176 moved above the lookup of line 166: the deferred CloseStream is
\* registered for every request, so it also runs for an unknown session
FmGetStreamDeferFirst(p) ==
    /\ apc[p] = "idle"
    /\ \E id \in SessionIDs :
         IF GetStreamErr(ioStreams, id)
         THEN /\ aloc' = [aloc EXCEPT ![p] =
                     [ALocInit EXCEPT !.streamId = id, !.exit = "notfound"]]
              /\ apc' = [apc EXCEPT ![p] = "fm_close"]
         ELSE /\ aloc' = [aloc EXCEPT ![p] =
                     [ALocInit EXCEPT !.streamId = id, !.found = TRUE]]
              /\ apc' = [apc EXCEPT ![p] = "fm_upgrade"]
    /\ UNCHANGED notAgent
    /\ UNCHANGED <<ServerList, ServerLock, ioStreams, nextStream, delivered, ppc, wsOpen,
                   dpc, dloc>>

\* lines 165-176: an unknown session returns at once; for a known one the
\* deferred CloseStream is registered
FmGetStream(p) ==
    /\ apc[p] = "idle"
    /\ \E id \in SessionIDs :
         IF GetStreamErr(ioStreams, id)
         THEN /\ aloc' = [aloc EXCEPT ![p] =
                     [ALocInit EXCEPT !.streamId = id, !.exit = "notfound"]]
              /\ apc' = [apc EXCEPT ![p] = "fm_returned"]
         ELSE /\ aloc' = [aloc EXCEPT ![p] =
                     [ALocInit EXCEPT !.streamId = id, !.found = TRUE]]
              /\ apc' = [apc EXCEPT ![p] = "fm_upgrade"]
    /\ UNCHANGED notAgent
    /\ UNCHANGED <<ServerList, ServerLock, ioStreams, nextStream, delivered, ppc, wsOpen,
                   dpc, dloc>>

\* the upgrade fails and the handler returns without running any deferred call
FmUpgradeNoCleanup(p) ==
    /\ apc[p] = "fm_upgrade"
    /\ \E ok \in BOOLEAN :
         IF ok
         THEN /\ wsOpen' = [wsOpen EXCEPT ![p] = TRUE]
              /\ ppc' = [ppc EXCEPT ![p] = "ping"]
              /\ aloc' = [aloc EXCEPT ![p].err = FALSE]
              /\ apc' = [apc EXCEPT ![p] = "fm_userconn"]
         ELSE /\ aloc' = [aloc EXCEPT ![p].err = TRUE, ![p].exit = "upgrade"]
              /\ apc' = [apc EXCEPT ![p] = "fm_returned"]
              /\ UNCHANGED <<wsOpen, ppc>>
    /\ UNCHANGED notAgent
    /\ UNCHANGED <<ServerList, ServerLock, ioStreams, nextStream, delivered, dpc, dloc>>

\* lines 178-202: the upgrade; on success wsConn.Close is deferred and the
\* keepalive goroutine is started
FmUpgrade(p) ==
    /\ apc[p] = "fm_upgrade"
    /\ \E ok \in BOOLEAN :
         IF ok
         THEN /\ wsOpen' = [wsOpen EXCEPT ![p] = TRUE]
              /\ ppc' = [ppc EXCEPT ![p] = "ping"]
              /\ aloc' = [aloc EXCEPT ![p].err = FALSE]
              /\ apc' = [apc EXCEPT ![p] = "fm_userconn"]
         ELSE /\ aloc' = [aloc EXCEPT ![p].err = TRUE, ![p].exit = "upgrade"]
              /\ apc' = [apc EXCEPT ![p] = "fm_close"]
              /\ UNCHANGED <<wsOpen, ppc>>
    /\ UNCHANGED notAgent
    /\ UNCHANGED <<ServerList, ServerLock, ioStreams, nextStream, delivered, dpc, dloc>>

\* line 204, the call and the assignment to err
FmUserConnected(p) ==
    /\ apc[p] = "fm_userconn"
    /\ IF UserConnectedErr(ioStreams, aloc[p].streamId)
       THEN /\ aloc' = [aloc EXCEPT ![p].err = TRUE]
            /\ ioStreams' = ioStreams
       ELSE /\ aloc' = [aloc EXCEPT ![p].err = FALSE]
            /\ ioStreams' = UserConnected(ioStreams, aloc[p].streamId, p)
    /\ apc' = [apc EXCEPT ![p] = "fm_check"]
    /\ UNCHANGED notAgent
    /\ UNCHANGED <<ServerList, ServerLock, nextStream, delivered, ppc, wsOpen, dpc, dloc>>

\* line 204, the test of err (the variable the keepalive goroutine also writes)
FmCheck(p) ==
    /\ apc[p] = "fm_check"
    /\ IF aloc[p].err
       THEN /\ aloc' = [aloc EXCEPT ![p].exit = "userconn"]
            /\ apc' = [apc EXCEPT ![p] = "fm_defer_ws"]
       ELSE /\ aloc' = aloc
            /\ apc' = [apc EXCEPT ![p] = "fm_start"]
    /\ UNCHANGED notAgent
    /\ UNCHANGED <<ServerList, ServerLock, ioStreams, nextStream, delivered, ppc, wsOpen,
                   dpc, dloc>>

\* line 208: StartStream relays when both halves are attached, else returns
FmRelayBegin(p) ==
    /\ apc[p] = "fm_start"
    /\ IF CanRelay(ioStreams, aloc[p].streamId, p)
       THEN /\ ioStreams' = [ioStreams EXCEPT ![aloc[p].streamId].relaying = TRUE]
            /\ aloc' = aloc
            /\ apc' = [apc EXCEPT ![p] = "fm_relay"]
       ELSE /\ ioStreams' = ioStreams
            /\ aloc' = [aloc EXCEPT ![p].exit = "error"]
            /\ apc' = [apc EXCEPT ![p] = "fm_defer_ws"]
    /\ UNCHANGED notAgent
    /\ UNCHANGED <<ServerList, ServerLock, nextStream, delivered, ppc, wsOpen, dpc, dloc>>

\* line 208: the relay ends: a side closed, an I/O error, or the timeout
FmRelayEnd(p) ==
    /\ apc[p] = "fm_relay"
    /\ \E reason \in {"end", "error", "timeout"} :
         aloc' = [aloc EXCEPT ![p].exit = reason]
    /\ apc' = [apc EXCEPT ![p] = "fm_defer_ws"]
    /\ UNCHANGED notAgent
    /\ UNCHANGED <<ServerList, ServerLock, ioStreams, nextStream, delivered, ppc, wsOpen,
                   dpc, dloc>>

\* line 191, deferred: wsConn.Close
FmDeferWs(p) ==
    /\ apc[p] = "fm_defer_ws"
    /\ wsOpen' = [wsOpen EXCEPT ![p] = FALSE]
    /\ apc' = [apc EXCEPT ![p] = "fm_close"]
    /\ UNCHANGED notAgent
    /\ UNCHANGED <<ServerList, ServerLock, ioStreams, nextStream, delivered, aloc, ppc,
                   dpc, dloc>>

\* line 176, deferred: CloseStream(streamId)
FmClose(p) ==
    /\ apc[p] = "fm_close"
    /\ ioStreams' = CloseStream(ioStreams, aloc[p].streamId)
    /\ aloc' = [aloc EXCEPT ![p].closeCalls = @ + 1]
    /\ apc' = [apc EXCEPT ![p] = "fm_returned"]
    /\ UNCHANGED notAgent
    /\ UNCHANGED <<ServerList, ServerLock, nextStream, delivered, ppc, wsOpen, dpc, dloc>>

\* lines 194-199 without the return: a failed write does not end the loop
PingNoReturn(p) ==
    /\ ppc[p] = "ping"
    /\ \E ok \in IF wsOpen[p] THEN BOOLEAN ELSE {FALSE} :
         aloc' = [aloc EXCEPT ![p].err = ~ok]
    /\ ppc' = [ppc EXCEPT ![p] = "sleep"]
    /\ UNCHANGED notAgent
    /\ UNCHANGED <<ServerList, ServerLock, ioStreams, nextStream, delivered, apc, wsOpen,
                   dpc, dloc>>

\* lines 194-199: the keepalive goroutine writes a ping and assigns the
\* handler's err; a failed write ends it
Ping(p) ==
    /\ ppc[p] = "ping"
    /\ \E ok \in IF wsOpen[p] THEN BOOLEAN ELSE {FALSE} :
         /\ aloc' = [aloc EXCEPT ![p].err = ~ok]
         /\ ppc' = [ppc EXCEPT ![p] = IF ok THEN "sleep" ELSE "done"]
    /\ UNCHANGED notAgent
    /\ UNCHANGED <<ServerList, ServerLock, ioStreams, nextStream, delivered, apc, wsOpen,
                   dpc, dloc>>

\* line 200
PingSleep(p) ==
    /\ ppc[p] = "sleep"
    /\ ppc' = [ppc EXCEPT ![p] = "ping"]
    /\ UNCHANGED notAgent
    /\ UNCHANGED <<ServerList, ServerLock, ioStreams, nextStream, delivered, apc, aloc,
                   wsOpen, dpc, dloc>>

SessionNext ==
    \/ \E p \in WebProcs :
        \/ CfUnauthorized(p) \/ CfUUIDFail(p) \/ CfCreate(p) \/ CfParse(p)
        \/ CfRLockRead(p) \/ CfRUnlock(p) \/ CfSend(p)
        \/ FmGetStream(p) \/ FmUpgrade(p) \/ FmUserConnected(p) \/ FmCheck(p)
        \/ FmRelayBegin(p) \/ FmRelayEnd(p) \/ FmDeferWs(p) \/ FmClose(p)
        \/ Ping(p) \/ PingSleep(p)
        \/ WebReturn(p)
    \/ \E id \in SessionIDs : AgentAttach(id)

\* ================================================================== protocol multiplexer
\* newHTTPandGRPCMux, part_000:160-169.  A string is a sequence of characters.
GRPCContentType == "application/grpc"
ContentTypes == {GRPCContentType, "application/grpc+proto", "Application/GRPC",
                 "application/json"}
\* proto.NezhaService_ServiceDesc.ServiceName, shortened to two characters
ServiceName == <<"s", "v">>
PathChars == {"/", "s", "v", "x"}
Paths == UNION {[1..n -> PathChars] : n \in 0..MaxPathLen}
\* the Content-Type values a request carries, in order (none, one or several)
HeaderValues == UNION {[1..n -> ContentTypes] : n \in 0..MaxHeaderValues}
Requests == [contentType : HeaderValues, path : Paths]

\* http.Header.Get: the first value of the key, "" when there is none
HeaderGet(values) == IF Len(values) = 0 THEN "" ELSE values[1]
\* strings.HasPrefix
HasPrefix(s, prefix) ==
    /\ Len(s) >= Len(prefix)
    /\ \A i \in 1..Len(prefix) : s[i] = prefix[i]

\* line 162 alone: the path is not looked at
IsGRPCRequestAnyPath(r) == HeaderGet(r.contentType) = GRPCContentType
\* lines 162-163
IsGRPCRequest(r) ==
    /\ HeaderGet(r.contentType) = GRPCContentType
    /\ HasPrefix(r.path, <<"/">> \o ServiceName)

NoRequest == [contentType |-> <<>>, path |-> <<>>]

MuxInit ==
    /\ mpc = "idle"
    /\ muxReq = NoRequest
    /\ grpcCalls = 0
    /\ httpCalls = 0

\* line 161: the server calls the handler function with a request
MuxReceive ==
    /\ mpc = "idle"
    /\ \E r \in Requests : muxReq' = r
    /\ mpc' = "route"
    /\ UNCHANGED <<grpcCalls, httpCalls>>
    /\ UNCHANGED notMux

\* lines 162-167: grpcHandler.ServeHTTP and return, or httpHandler.ServeHTTP
MuxRoute ==
    /\ mpc = "route"
    /\ IF IsGRPCRequest(muxReq)
       THEN /\ grpcCalls' = grpcCalls + 1
            /\ httpCalls' = httpCalls
       ELSE /\ httpCalls' = httpCalls + 1
            /\ grpcCalls' = grpcCalls
    /\ mpc' = "served"
    /\ UNCHANGED muxReq
    /\ UNCHANGED notMux

\* line 168: the handler function returns; its counts are per request
MuxReturn ==
    /\ mpc = "served"
    /\ mpc' = "idle"
    /\ muxReq' = NoRequest
    /\ grpcCalls' = 0
    /\ httpCalls' = 0
    /\ UNCHANGED notMux

MuxNext == MuxReceive \/ MuxRoute \/ MuxReturn

\* ================================================================== agent connections
\* The agent side of the registry: rpc.NezhaHandler.RequestTask (service/rpc,
\* not in the sources held here), after the spec's Upsert: a new registration
\* replaces and closes any prior stream of that agent ID, under ServerLock.
TaskStreamIDs == 1..(MaxServerID + MaxConnects)
\* the streams the initial registry holds are open
OpenIn(m) == [h \in {m[k].TaskStream : k \in DOMAIN m} \ {0} |->
                 (CHOOSE k \in DOMAIN m : m[k].TaskStream = h)]
ConnInit ==
    /\ taskStreams = OpenIn(ServerList)
    /\ nextTaskStream = MaxServerID + 1

AgentConnect(id) ==
    /\ id \in DOMAIN ServerList
    /\ nextTaskStream \in TaskStreamIDs
    /\ CanLock(ServerLock)
    /\ LET old == ServerList[id].TaskStream
           kept == IF old # 0 THEN MapDelete(taskStreams, old) ELSE taskStreams
       IN  taskStreams' = MapSet(kept, nextTaskStream, id)
    /\ ServerList' = [ServerList EXCEPT ![id].TaskStream = nextTaskStream]
    /\ nextTaskStream' = nextTaskStream + 1
    /\ UNCHANGED <<tokenVars, cronVars, muxVars>>
    /\ UNCHANGED <<ServerLock, ioStreams, nextStream, delivered, apc, aloc, ppc, wsOpen,
                   dpc, dloc>>

\* the agent's stream ends: it is closed and the record keeps none
AgentDisconnect(id) ==
    /\ id \in DOMAIN ServerList
    /\ ServerList[id].TaskStream \in DOMAIN taskStreams
    /\ CanLock(ServerLock)
    /\ taskStreams' = MapDelete(taskStreams, ServerList[id].TaskStream)
    /\ ServerList' = [ServerList EXCEPT ![id].TaskStream = 0]
    /\ UNCHANGED nextTaskStream
    /\ UNCHANGED <<tokenVars, cronVars, muxVars>>
    /\ UNCHANGED <<ServerLock, ioStreams, nextStream, delivered, apc, aloc, ppc, wsOpen,
                   dpc, dloc>>

RegistryNext ==
    \/ \E p \in WebProcs :
        \/ BuReject(p) \/ BuBegin(p) \/ BuLock(p) \/ BuLoop(p) \/ BuUnlock(p)
        \/ WebReturn(p)
    \/ \E id \in ServerIDs : AgentConnect(id) \/ AgentDisconnect(id)

\* ================================================================== specifications
InitToken == TokenInit /\ CronInit /\ AgentAtRest /\ MuxInit /\ ConnInit
InitCron == TokenInit /\ CronInit /\ AgentAtRest /\ MuxInit /\ ConnInit
InitDispatch == TokenInit /\ CronInit /\ AgentInit /\ MuxInit /\ ConnInit
InitSession == TokenInit /\ CronInit /\ AgentInit /\ MuxInit /\ ConnInit
InitRegistry == TokenInit /\ CronInit /\ AgentInit /\ MuxInit /\ ConnInit
InitMux == TokenInit /\ CronInit /\ AgentAtRest /\ MuxInit /\ ConnInit

SpecToken == InitToken /\ [][TokenNext]_vars
SpecCron == InitCron /\ [][CronNext]_vars
SpecDispatch == InitDispatch /\ [][DispatchNext]_vars
SpecSession == InitSession /\ [][SessionNext]_vars
SpecMux == InitMux /\ [][MuxNext]_vars
SpecRegistry == InitRegistry /\ [][RegistryNext]_vars

\* ------------------------------------------------------------------ token claims
MintedFor(u) == {t \in DOMAIN minted : minted[t] = u}

\* C1: whenever ApiLock is not write-held, a token t is a key of ApiTokenList
\* with owner u exactly when t occurs exactly once in UserIDToApiTokenList[u]
\* (and in no other user's list), and no user key maps to an empty list.
C1_TokenDualIndex ==
    ApiLock.w = 0 =>
        /\ \A t \in DOMAIN ApiTokenList :
              LET u == ApiTokenList[t].UserID
              IN  u \in DOMAIN UserIDToApiTokenList
                  /\ Count(UserIDToApiTokenList[u], t) = 1
        /\ \A u \in DOMAIN UserIDToApiTokenList :
              /\ UserIDToApiTokenList[u] # <<>>
              /\ \A i \in 1..Len(UserIDToApiTokenList[u]) :
                    LET t == UserIDToApiTokenList[u][i]
                    IN  /\ t \in DOMAIN ApiTokenList
                        /\ ApiTokenList[t].UserID = u
                        /\ Count(UserIDToApiTokenList[u], t) = 1

\* a user holds two tokens after some other token was revoked, lock free
C1_Witness ==
    /\ ApiLock = Unlocked
    /\ revoked # {}
    /\ \E u \in DOMAIN UserIDToApiTokenList : Len(UserIDToApiTokenList[u]) >= 2

\* C2: once deleteToken(t) has answered success, t is in neither index; if t
\* was its owner's only token the owner's key is gone when deleteToken
\* returns; and a getToken for a user all of whose issued tokens were revoked
\* answers the empty list (never a revoked token).
C2_RevokedGone ==
    /\ \A t \in revoked :
          /\ t \notin DOMAIN ApiTokenList
          /\ \A u \in DOMAIN UserIDToApiTokenList : ~InSeq(UserIDToApiTokenList[u], t)
    /\ \A p \in TokenProcs :
          (tpc[p] = "del_unlock" /\ tloc[p].code = StatusOK /\ tloc[p].wasOnly)
              => tloc[p].u \notin DOMAIN UserIDToApiTokenList
    /\ \A p \in TokenProcs :
          tpc[p] = "get_runlock" =>
              /\ \A i \in 1..Len(tloc[p].res) : tloc[p].res[i].Token \notin revoked
              /\ (MintedFor(tloc[p].u) \subseteq revoked) => tloc[p].res = <<>>

\* getToken answers for a user whose every issued token has been revoked
C2_Witness ==
    \E p \in TokenProcs :
        /\ tpc[p] = "get_runlock"
        /\ tloc[p].code = StatusOK
        /\ MintedFor(tloc[p].u) # {}
        /\ MintedFor(tloc[p].u) \subseteq revoked

\* C3: every token a getToken reader took from UserIDToApiTokenList[u] has its
\* ApiTokenList entry for as long as the reader uses the list, so the Note
\* lookup never dereferences a missing entry.
C3_ReaderSeesWholeIndex ==
    \A p \in TokenProcs :
        tpc[p] \in {"get_loop", "get_runlock"} =>
            /\ \A i \in 1..Len(tloc[p].tokenList) :
                  tloc[p].tokenList[i] \in DOMAIN ApiTokenList
            /\ tloc[p].code # StatusInternalServerError

\* a reader is inside its loop over a token that a deleteToken, blocked on the
\* lock, is about to revoke
C3_Witness ==
    \E p, q \in TokenProcs :
        /\ tpc[p] = "get_loop"
        /\ tpc[q] = "del_lock"
        /\ InSeq(tloc[p].tokenList, tloc[q].token)

\* ------------------------------------------------------------------ dispatch claims
FuPositions == {"fu_rlock", "fu_runlock", "fu_send", "fu_respond", "fu_done"}
ExpectedOutcome(s) ==
    IF s.server.nil \/ s.server.TaskStream = 0 THEN "offline"
    ELSE IF s.sendErr THEN "failed" ELSE "success"

\* C6: a task that is executing TaskStream.Send (forceUpdate on a target with
\* a stream, createFM, or the start-up dispatchReportInfoTask) holds neither
\* the read nor the write side of ServerLock.
C6_NoLockAcrossSend ==
    /\ \A p \in WebProcs :
          (\/ apc[p] = "fu_send" /\ HasStream(aloc[p].server)
           \/ apc[p] = "cf_send")
              => ~HoldsRead(ServerLock, p) /\ ~HoldsWrite(ServerLock, p)
    /\ dpc = "send" => ~HoldsRead(ServerLock, ReportTask) /\ ~HoldsWrite(ServerLock, ReportTask)

\* C7: forceUpdate appends one result per target, in input order: offline for
\* a target without record or stream, failed for a Send error, success
\* otherwise; when it responds every target of the list has its entry, so a
\* failure never stops the targets after it.
C7_PerTargetResults ==
    \A p \in WebProcs :
        apc[p] \in FuPositions =>
            LET r == aloc[p].result
                ids == aloc[p].ids
            IN  /\ Len(r) = aloc[p].i - 1
                /\ Len(aloc[p].sends) = Len(r)
                /\ Len(r) <= Len(ids)
                /\ apc[p] \in {"fu_respond", "fu_done"} => Len(r) = Len(ids)
                /\ \A k \in 1..Len(r) :
                      /\ r[k].id = ids[k]
                      /\ r[k].outcome = ExpectedOutcome(aloc[p].sends[k])
C7_Witness ==
    \E p \in WebProcs :
        /\ apc[p] = "fu_done"
        /\ Len(aloc[p].ids) = 2
        /\ aloc[p].result[1].outcome = "failed"
        /\ aloc[p].result[2].outcome = "success"

\* ------------------------------------------------------------------ session claims
\* C8: when createFM has created its session and then fails to open it on the
\* agent (id not a number, agent not in the registry, Send error), the
\* session record is gone by the time createFM returns.
C8_FailedOpenDestroysSession ==
    \A p \in WebProcs :
        (apc[p] = "cf_returned" /\ aloc[p].created
            /\ aloc[p].exit \in {"parse", "noserver", "sendfail"})
                => aloc[p].streamId \notin DOMAIN ioStreams

\* C9: createFM for an agent whose record exists but has no stream ends with
\* a failure outcome, and never by a send on the missing stream that crashes
\* the handler.
C9_OfflineFailsFast ==
    \A p \in WebProcs :
        (apc[p] = "cf_returned" /\ aloc[p].created
            /\ ~aloc[p].server.nil /\ aloc[p].server.TaskStream = 0)
                => aloc[p].exit \notin {"panic", "ok"}

\* C10: once fm has found its session, it runs CloseStream for it exactly
\* once on every exit path, never before its deferred calls run, and the
\* record is gone when fm has returned; without a session it never closes one.
C10_CleanupExactlyOnce ==
    \A p \in WebProcs :
        /\ apc[p] = "fm_returned" =>
              IF aloc[p].found
              THEN aloc[p].closeCalls = 1 /\ aloc[p].streamId \notin DOMAIN ioStreams
              ELSE aloc[p].closeCalls = 0
        /\ apc[p] \in {"fm_upgrade", "fm_userconn", "fm_check", "fm_start", "fm_relay",
                       "fm_defer_ws", "fm_close"} => aloc[p].closeCalls = 0
C10_Witness ==
    \E p \in WebProcs :
        /\ apc[p] = "fm_returned"
        /\ aloc[p].found
        /\ aloc[p].exit = "timeout"
        /\ aloc[p].closeCalls = 1

\* ------------------------------------------------------------------ session reclaim
\* The steps of a running handler and of its keepalive goroutine: the Go
\* scheduler runs every runnable goroutine.  The arrival of a request
\* (CfCreate, FmGetStream, ...) is the browser's choice and is not fair.
HandlerSteps(p) ==
    \/ CfParse(p) \/ CfRLockRead(p) \/ CfRUnlock(p) \/ CfSend(p)
    \/ FmUpgrade(p) \/ FmUserConnected(p) \/ FmCheck(p) \/ FmRelayBegin(p)
    \/ FmRelayEnd(p) \/ FmDeferWs(p) \/ FmClose(p) \/ WebReturn(p)
PingerSteps(p) == Ping(p) \/ PingSleep(p)
SessionFairness ==
    /\ \A p \in WebProcs : WF_vars(HandlerSteps(p)) /\ WF_vars(PingerSteps(p))
    /\ \A id \in SessionIDs : WF_vars(AgentAttach(id))
SpecSessionFair == InitSession /\ [][SessionNext]_vars /\ SessionFairness

\* an fm handler has found session s (the browser side has turned up)
FmHas(s) ==
    \E p \in WebProcs :
        /\ apc[p] \in {"fm_upgrade", "fm_userconn", "fm_check", "fm_start", "fm_relay",
                       "fm_defer_ws", "fm_close", "fm_returned"}
        /\ aloc[p].found
        /\ aloc[p].streamId = s

\* C11: a session in the table is eventually removed from it unless a browser
\* calls fm for it: with every handler and background task scheduled fairly,
\* a session no fm ever finds does not stay in the table for ever.
C11_UnattachedReclaimed ==
    \A s \in SessionIDs :
        (s \in DOMAIN ioStreams) ~> (s \notin DOMAIN ioStreams \/ FmHas(s))

\* ------------------------------------------------------------------ cron claims, continued
\* the form handler p has bound is a scheduled task with the alert-trigger cover
ForbiddenForm(l) == l.cr.TaskType = CronTypeCronTask /\ l.cover = CronCoverAlertTrigger

\* C12: addOrEditCron with TaskType = scheduled task and Cover = alert-trigger
\* answers an error and changes nothing: the step that takes such a form
\* ends the handler with code 400, before the transaction begins, and leaves
\* the store, the engine's timers and the Crons registry as they were.
C12_RejectionChangesNothing ==
    [][\A p \in CronProcs :
          (cpc[p] = "idle" /\ cpc'[p] # "idle" /\ ForbiddenForm(cloc'[p]))
              => /\ cpc'[p] = "rejected"
                 /\ cloc'[p].code = StatusBadRequest
                 /\ UNCHANGED <<Crons, CronEntries, nextEntryID, dbCrons, nextCronID,
                                CronLock>>]_vars
C12_Witness ==
    \E p \in CronProcs :
        /\ cpc[p] = "rejected"
        /\ ForbiddenForm(cloc[p])
        /\ cloc[p].cr.ID \in DOMAIN Crons
        /\ Crons[cloc[p].cr.ID].CronJobID \in DOMAIN CronEntries

\* the engine entry a record's handle must name: a timer of that job, built
\* from that record's definition
TimerOf(rec) == [job |-> rec.ID, def |-> rec.def]

C14_MuxRouting ==
    /\ mpc = "served" =>
          LET isRPC == /\ Len(muxReq.contentType) > 0
                       /\ muxReq.contentType[1] = "application/grpc"
                       /\ Len(muxReq.path) >= 3
                       /\ SubSeq(muxReq.path, 1, 3) = <<"/", "s", "v">>
          IN  /\ grpcCalls + httpCalls = 1
              /\ grpcCalls = 1 <=> isRPC
              /\ httpCalls = 1 <=> ~isRPC
    /\ mpc # "served" => grpcCalls = 0 /\ httpCalls = 0
C14_Witness ==
    /\ mpc = "served"
    /\ grpcCalls = 1
    /\ httpCalls = 0
    /\ muxReq.path = <<"/", "s", "v", "/">>

\* ------------------------------------------------------------------ registry claims
\* the open streams of agent id, and the streams the registry reaches for it
StreamsOf(id) == {h \in DOMAIN taskStreams : taskStreams[h] = id}
RegisteredStreams(id) ==
    {ServerList[k].TaskStream :
        k \in {j \in DOMAIN ServerList : j = id \/ ServerList[j].ID = id}} \ {0}

\* C15: for every agent ID at most one stream is open, it is the stream the
\* registry holds for that ID, and every earlier stream of the ID is closed:
\* after consecutive connections of one agent, and after
\* batchUpdateServerGroup has stored its copy of the agent's record.
C15_OneLiveStream ==
    \A id \in ServerIDs :
        /\ Cardinality(StreamsOf(id)) <= 1
        /\ RegisteredStreams(id) = StreamsOf(id)
C15_Witness ==
    \E p \in WebProcs :
        /\ apc[p] = "bu_done"
        /\ InSeq(aloc[p].ids, 1)
        /\ 1 \in DOMAIN ServerList
        /\ nextTaskStream = MaxServerID + 3
        /\ StreamsOf(1) = {nextTaskStream - 1}
        /\ ServerList[1].TaskStream = nextTaskStream - 1

\* ------------------------------------------------------------------ session claims, continued
FmPositions == {"fm_upgrade", "fm_userconn", "fm_check", "fm_start", "fm_relay",
                "fm_defer_ws", "fm_close", "fm_returned"}
\* Session s was created and is no longer in the table.  Only fm's deferred
\* CloseStream removes a record, and fm returns right after it: s is gone
\* exactly when an fm handler that had found s has closed it.
Gone(s) == s < nextStream /\ s \notin DOMAIN ioStreams

\* C16: a session ID is single-use.  When an fm handler that found s has
\* returned, s is gone; a session that is gone never comes back; and an fm
\* request for a gone ID returns from the GetStream lookup: not found, no
\* websocket opened, no keepalive started, no relay.
C16_SessionIDSingleUse ==
    [][\A s \in SessionIDs :
          /\ (\E q \in WebProcs : /\ apc'[q] = "fm_returned"
                                  /\ aloc'[q].found
                                  /\ aloc'[q].streamId = s) => Gone(s)'
          /\ Gone(s) => Gone(s)'
          /\ \A p \in WebProcs :
                (Gone(s) /\ apc[p] = "idle" /\ apc'[p] \in FmPositions
                    /\ aloc'[p].streamId = s)
                    => /\ apc'[p] = "fm_returned"
                       /\ ~aloc'[p].found
                       /\ aloc'[p].closeCalls = 0
                       /\ UNCHANGED <<wsOpen, ppc, ioStreams>>]_vars
C16_Witness ==
    \E p \in WebProcs :
        /\ apc[p] = "fm_returned"
        /\ ~aloc[p].found
        /\ aloc[p].exit = "notfound"
        /\ Gone(aloc[p].streamId)

\* ------------------------------------------------------------------ cron claims, delete
\* the job handler p deletes has no timer to remove: no record, or handle zero
NoTimerFor(id) == id \notin DOMAIN Crons \/ Crons[id].CronJobID = 0

\* C17: in the cron branch of delete, for a job that is absent from Crons or
\* whose record holds handle zero, the lookup step calls no Remove and leaves
\* the engine's timers as they are; the map delete of an absent job leaves
\* Crons as it is; and the handler answers success.  A second delete of a
\* job ID is the absent case.
C17_UnregisterNoTimerNoOp ==
    [][\A p \in CronProcs :
          /\ (cpc[p] = "del_read" /\ cpc'[p] = "del_map" /\ NoTimerFor(cloc[p].id))
                => /\ cloc'[p].removeCalls = 0
                   /\ CronEntries' = CronEntries
                   /\ Crons' = Crons
          /\ (cpc[p] = "del_map" /\ cpc'[p] = "del_runlock")
                => /\ cloc'[p].code = StatusOK
                   /\ CronEntries' = CronEntries
                   /\ cloc[p].id \notin DOMAIN Crons => Crons' = Crons]_vars
\* a delete has looked up a job that was stored once and is not in the
\* registry, and called no Remove, while timers of other jobs are live
C17_Witness ==
    \E p \in CronProcs :
        /\ cpc[p] = "del_map"
        /\ cloc[p].removeCalls = 0
        /\ cloc[p].id < nextCronID
        /\ cloc[p].id \notin DOMAIN Crons
        /\ JobTimers # {}

\* ------------------------------------------------------------------ keepalive claims
PingerRuns(p) == ppc[p] \in {"ping", "sleep"}

\* C18: the keepalive goroutine sleeps between two pings, and it has a stop
\* condition: once its fm handler has returned (the deferred wsConn.Close has
\* run), the goroutine ends, under fair scheduling of the goroutines; it runs
\* only for a handler whose websocket was opened.
C18_PingerStops ==
    /\ \A p \in WebProcs :
          (PingerRuns(p) /\ apc[p] = "fm_returned") ~> (ppc[p] = "done")
    /\ [][\A p \in WebProcs :
             /\ (ppc[p] = "ping" /\ ppc'[p] # "ping") => ppc'[p] \in {"sleep", "done"}
             /\ (ppc'[p] = "ping" /\ ppc[p] # "ping") =>
                    (ppc[p] = "sleep" \/ (ppc[p] = "none" /\ wsOpen'[p]))]_vars
C18_Witness ==
    \E p \in WebProcs :
        /\ apc[p] = "fm_returned"
        /\ aloc[p].exit = "end"
        /\ ~wsOpen[p]
        /\ ppc[p] = "done"

\* ------------------------------------------------------------------ dispatch claims, frame
\* a step of the forceUpdate call of handler p
FuStep(p) ==
    /\ <<apc[p], aloc[p]>> # <<apc'[p], aloc'[p]>>
    /\ apc[p] \in FuPositions \/ apc'[p] \in FuPositions

\* C19: no step of a forceUpdate call, whatever its targets' outcomes,
\* changes the agent registry (its keys and each record's stream and ID),
\* the open streams, the token registry or the job registry and its timers.
C19_DispatchMutatesNothing ==
    [][\A p \in WebProcs :
          FuStep(p) => UNCHANGED <<ServerList, taskStreams, ApiTokenList,
                                   UserIDToApiTokenList, Crons, CronEntries>>]_vars
C19_Witness ==
    \E p \in WebProcs :
        /\ apc[p] = "fu_done"
        /\ Len(aloc[p].result) = 2
        /\ aloc[p].result[1].outcome = "offline"
        /\ aloc[p].result[2].outcome = "failed"
        /\ ServerList # EmptyMap

\* ------------------------------------------------------------------ token claims, unknown token
\* C20: deleteToken for a token that is not a key of ApiTokenList when it is
\* looked up (a token revoked before included) answers an error, deletes no
\* row of the store, and leaves ApiTokenList and UserIDToApiTokenList as they
\* are, from the lookup to the handler's return.
C20_UnknownTokenNoEffect ==
    [][\A p \in TokenProcs :
          /\ (tpc[p] = "del_check" /\ tpc'[p] # "del_check"
                /\ tloc[p].token \notin DOMAIN ApiTokenList)
                => /\ tpc'[p] = "del_unlock"
                   /\ tloc'[p].code = StatusBadRequest
                   /\ UNCHANGED <<ApiTokenList, UserIDToApiTokenList, dbTokens, revoked>>
          /\ (tpc[p] = "del_unlock" /\ tpc'[p] # "del_unlock"
                /\ tloc[p].code = StatusBadRequest)
                => UNCHANGED <<ApiTokenList, UserIDToApiTokenList, dbTokens, revoked>>]_vars
C20_Witness ==
    \E p \in TokenProcs :
        /\ tpc[p] = "del_unlock"
        /\ tloc[p].code = StatusBadRequest
        /\ tloc[p].token \in revoked
        /\ ApiTokenList # EmptyMap

\* ------------------------------------------------------------------ session claims, unknown ID
\* C21: an fm request for an ID that GetStream does not know (never created,
\* or closed before) returns from the lookup.  The handler's one step takes
\* it to its return with no websocket opened, no keepalive goroutine started
\* and no CloseStream called; it never stands where UserConnected or
\* StartStream are called; and neither that step nor its return changes the
\* session table or the set of sessions sent to agents.
C21_UnknownSessionReturnsAtOnce ==
    [][\A p \in WebProcs :
          /\ (apc[p] = "idle" /\ apc'[p] \in FmPositions
                /\ GetStreamErr(ioStreams, aloc'[p].streamId))
                => /\ apc'[p] = "fm_returned"
                   /\ aloc'[p].exit = "notfound"
                   /\ aloc'[p].closeCalls = 0
                   /\ ~wsOpen'[p]
                   /\ ppc'[p] = "none"
                   /\ UNCHANGED <<ioStreams, delivered, nextStream, wsOpen, ppc>>
          /\ (apc[p] = "fm_returned" /\ aloc[p].exit = "notfound"
                /\ apc'[p] # apc[p])
                => /\ apc'[p] = "idle"
                   /\ UNCHANGED <<ioStreams, delivered, nextStream, wsOpen, ppc>>
          /\ (apc'[p] \in {"fm_upgrade", "fm_userconn", "fm_check", "fm_start",
                           "fm_relay", "fm_defer_ws", "fm_close"})
                => aloc'[p].found]_vars
\* an fm request for an ID that was never issued has returned, while another
\* session is in the table
C21_Witness ==
    \E p \in WebProcs :
        /\ apc[p] = "fm_returned"
        /\ aloc[p].exit = "notfound"
        /\ aloc[p].streamId >= nextStream
        /\ aloc[p].closeCalls = 0
        /\ ioStreams # EmptyMap

\* ------------------------------------------------------------------ session claims, authorization
\* handler p serves a createFM request that passed the test of line 213
CfAuthorized(p) ==
    /\ apc[p] \in {"cf_parse", "cf_rlock", "cf_runlock", "cf_send", "cf_returned"}
    /\ aloc[p].exit # "unauthorized"

\* C22: a createFM request without an authorized user returns from the test:
\* its step creates no session record, issues no ID and sends no task, and
\* the handler does nothing after it but return.  A record enters the session
\* table, and an open-session task reaches an agent, only in a step of a
\* createFM handler that passed the test, and for that handler's own ID.
C22_SessionNeedsAuthorization ==
    [][/\ \A p \in WebProcs :
            /\ (apc[p] = "idle" /\ aloc'[p].exit = "unauthorized")
                  => /\ apc'[p] = "cf_returned"
                     /\ ~aloc'[p].created
                     /\ UNCHANGED <<ioStreams, nextStream, delivered>>
            /\ (apc[p] = "cf_returned" /\ aloc[p].exit = "unauthorized"
                  /\ apc'[p] # apc[p])
                  => /\ apc'[p] = "idle"
                     /\ UNCHANGED <<ioStreams, nextStream, delivered>>
       /\ \A s \in SessionIDs :
            /\ (s \notin DOMAIN ioStreams /\ s \in DOMAIN ioStreams')
                  => \E p \in WebProcs : /\ apc[p] = "idle"
                                         /\ CfAuthorized(p)'
                                         /\ aloc'[p].created
                                         /\ aloc'[p].streamId = s
            /\ (s \notin delivered /\ s \in delivered')
                  => \E p \in WebProcs : /\ apc[p] = "cf_send"
                                         /\ CfAuthorized(p)
                                         /\ aloc[p].created
                                         /\ aloc[p].streamId = s]_vars
\* a request without an authorized user has been turned away while the
\* session of an authorized request is in the table and its task was sent
C22_Witness ==
    \E p \in WebProcs :
        /\ apc[p] = "cf_returned"
        /\ aloc[p].exit = "unauthorized"
        /\ ~aloc[p].created
        /\ \E s \in DOMAIN ioStreams : s \in delivered

\* ------------------------------------------------------------------ session claims, second request
\* C28: a session on which an fm handler is relaying stays in the session
\* table until that handler's own relay has ended: no other fm request for
\* the same ID, whether its upgrade fails or UserConnected turns it away,
\* removes it in its cleanup.
C28_RelayClosedOnlyByOwner ==
    \A q \in WebProcs :
        apc[q] = "fm_relay" => /\ aloc[q].streamId \in DOMAIN ioStreams
                               /\ ioStreams[aloc[q].streamId].user = q

\* ------------------------------------------------------------------ cron claims, edits
\* the engine's timers that were registered for job j
TimersFor(j) == {e \in JobTimers : CronEntries[e].job = j}

\* C23: in every state, the states of addOrEditCron between its AddFunc and
\* its Remove of the old timer included, the engine holds at most one timer
\* registered for any one job ID.
C23_OneTimerPerJob ==
    \A j \in CronIDs : Cardinality(TimersFor(j)) <= 1

\* C24: when addOrEditCron answers an error after its transaction was begun
\* (Create/Save failed, AddFunc failed, or Commit failed after AddFunc), the
\* step that gives up leaves Crons as it is and leaves no timer this call
\* registered in the engine.
C24_FailedEditLeavesNoTrace ==
    [][\A p \in CronProcs :
          (cpc[p] = "aoe_commit" /\ cpc'[p] = "rejected")
              => /\ Crons' = Crons
                 /\ cloc[p].cr.CronJobID # 0
                       => cloc[p].cr.CronJobID \notin DOMAIN CronEntries']_vars

\* C25: a cron delete of job j wins over an addOrEditCron of j whose commit
\* came before the delete's row delete: once every call has returned, a job
\* with no row in the store has no record in Crons.  (A row is removed only
\* by a delete and a record is stored only after a commit, so a record
\* without a row at rest is one an edit stored after the delete that removed
\* its row had cleared the map.)
C25_DeletionWins ==
    CronQuiescent =>
        \A j \in CronIDs : j \notin DOMAIN dbCrons => j \notin DOMAIN Crons

\* C26: once every addOrEditCron has returned, the record Crons holds for a
\* job carries the definition that was committed last to the store for it.
C26_RegistryAgreesWithStore ==
    CronQuiescent =>
        \A j \in DOMAIN Crons \cap DOMAIN dbCrons : Crons[j].def = dbCrons[j]

\* ------------------------------------------------------------------ registry claims, batch update
\* C27: no iteration of batchUpdateServerGroup's loop, whatever ID the
\* request lists, changes the key set of ServerList, and every agent's
\* record keeps its ID and its command stream.
C27_BatchKeepsIdentity ==
    [][\A p \in WebProcs :
          (apc[p] = "bu_loop" /\ aloc'[p].i = aloc[p].i + 1)
              => /\ DOMAIN ServerList' = DOMAIN ServerList
                 /\ \A id \in DOMAIN ServerList :
                       /\ ServerList'[id].ID = ServerList[id].ID
                       /\ ServerList'[id].TaskStream = ServerList[id].TaskStream]_vars

====
